---- MODULE Spec2Model ----
(***************************************************************************)
(* Verification model of the clementine bridge core: the verifier protocol *)
(* (core/src/verifier.rs), the connector tree and the taproot leaf-depth   *)
(* assignment (operator/src/transaction_builder.rs), the mutex-guarded     *)
(* Database (core/src/db/common.rs) and the database wrapper types         *)
(* (core/src/database/wrapper.rs).                                         *)
(***************************************************************************)
EXTENDS Integers, Sequences, FiniteSets, TLC

VARIABLES
    deposit_infos,   \* db: deposit outpoint -> Option<(recovery address, evm address)>
    nonces,          \* db: deposit outpoint -> Option<list of (pub nonce, sec nonce)>
    agg_nonces,      \* db: deposit outpoint -> Option<list of aggregated nonces>
    kickoffs,        \* db: deposit outpoint -> Option<list of (outpoint, amount)>
    nonce_ctr,       \* number of nonce batches drawn from the random source so far
    uses,            \* history: (secret nonce, digest) pairs handed to partial_sign
    last,            \* the last call made and what it returned
    ctor,            \* Verifier::new: configuration, position, result
    procs,           \* concurrent new_deposit calls: position and locals of each
    okg_calls,       \* operator_kickoffs_generated calls: position and locals of each
    burn_call,       \* a burn_txs_signed call: position and locals
    withdrawal_sigs, \* db: withdrawal index -> Option<(bridge_fund_txid, signature)>
    wlast,           \* the last new_withdrawal_direct call and what it returned
    tree,            \* create_connector_binary_tree: inputs, loop position, result
    tap,             \* create_taproot_address: inputs, fold position, result
    database,        \* Database (db/common.rs): content, mutex, tasks in a call
    codec            \* a database wrapper value, its encoded text and the decoded value

vars == <<deposit_infos, nonces, agg_nonces, kickoffs, nonce_ctr, uses, last,
          ctor, procs, okg_calls, burn_call, withdrawal_sigs, wlast, tree, tap,
          database, codec>>

----------------------------------------------------------------------------
(* Bounds and program constants *)

\* longest kickoff batch an operator submits in the model
MaxKickoffs == 2

\* let num_required_sigs = 10
NUM_REQUIRED_SIGS == 10

\* if value.to_sat() < 100_000
MIN_KICKOFF_SATS == 100000

\* value of script_builder::anyone_can_spend_txout(), the literal 330 of the handlers
ANYONE_CAN_SPEND_SATS == 330

\* clementine_circuits::constants::BRIDGE_AMOUNT_SATS
BRIDGE_AMOUNT_SATS == 100000000

\* BridgeConfig::min_relay_fee of the verifier
MinRelayFee == 305

----------------------------------------------------------------------------
(* Option values: None is the empty tuple, Some(x) the one-element tuple *)

None == <<>>

Some(x) == <<x>>

IsSome(o) == Len(o) = 1

Unwrap(o) == o[1]

Ok(v) == [ok |-> TRUE, err |-> "", val |-> v]

Err(e) == [ok |-> FALSE, err |-> e, val |-> <<>>]

\* a panic unwinds the call: the caller gets no value at all
Panic == [ok |-> FALSE, err |-> "panic", val |-> <<>>]

Range(s) == {s[i] : i \in 1..Len(s)}

----------------------------------------------------------------------------
(* Inputs *)

Deposits == {"D1", "D2"}

RecoveryAddresses == {"R1", "R2"}

EvmAddresses == {"E1"}

\* the verifier's own key (self.signer) and a foreign key
SignerKey == "verifier_key"

ForeignKey == "foreign_key"

\* funding transactions an operator declares; output values in sat
FundingTxs == {[name |-> "T1", output |-> <<100000>>],
               [name |-> "T2", output |-> <<150000, 99999>>]}

\* PsbtOutPoint { tx, vout }: vout is 0-based. Two kickoffs that pass the value check,
\* one below the threshold, one whose vout points past the outputs of its transaction
FundingTx(name) == CHOOSE t \in FundingTxs : t.name = name

GoodKickoffs == {[tx |-> FundingTx("T1"), vout |-> 0], [tx |-> FundingTx("T2"), vout |-> 0]}

UnderValueKickoff == [tx |-> FundingTx("T2"), vout |-> 1]

NoSuchOutputKickoff == [tx |-> FundingTx("T1"), vout |-> 1]

\* transaction ids are collision free: the id is a tag over the whole transaction
Txid(tx) == [txid_of |-> tx]

\* sequences over S of length at most n in which no element repeats
SeqsNoRep(S, n) == {s \in UNION {[1..k -> S] : k \in 0..n} :
                        \A i, j \in DOMAIN s : i # j => s[i] # s[j]}

\* kickoff batches: every batch of kickoffs that pass, and every batch over one kickoff
\* that passes and the two that do not
KickoffBatches ==
    SeqsNoRep(GoodKickoffs, MaxKickoffs)
    \cup SeqsNoRep({[tx |-> FundingTx("T1"), vout |-> 0], UnderValueKickoff,
                    NoSuchOutputKickoff}, MaxKickoffs)

\* a Schnorr signature is the pair (signing key, digest): verification compares both
SchnorrSign(key, msg) == [key |-> key, msg |-> msg]

verify_schnorr(sig, msg, pk) == sig.key = pk /\ sig.msg = msg

\* sha256_hash!(deposit txid, deposit vout, kickoff txid, kickoff vout): the hash of the
\* concatenation, here the tuple of the parts
KickoffSigHash(d, ku) == <<"kickoff_sig_hash", d, Txid(ku.tx), ku.vout>>

\* operator signature lists: all by the expected key, the first by a foreign key,
\* or one signature too many
KickoffSigLists(d, ku) ==
    LET good == [i \in 1..Len(ku) |-> SchnorrSign(SignerKey, KickoffSigHash(d, ku[i]))]
    IN  {good}
        \cup {[good EXCEPT ![p] = SchnorrSign(ForeignKey, KickoffSigHash(d, ku[p]))] :
                 p \in {q \in 1..Len(ku) : q = 1}}
        \cup {Append(good, SchnorrSign(SignerKey, KickoffSigHash(d, UnderValueKickoff)))}

\* aggregated nonces the operator supplies: entry i (0-based slot i-1) of round tag
AggList(tag, n) == [i \in 1..n |-> [agg |-> tag, slot |-> i - 1]]

AggChoices == {AggList("A", 0), AggList("A", NUM_REQUIRED_SIGS),
               AggList("B", NUM_REQUIRED_SIGS)}

DefaultAgg == AggList("A", NUM_REQUIRED_SIGS)

NoRequest == [agg_nonces |-> <<>>, kickoff_utxos |-> <<>>, sigs |-> <<>>]

----------------------------------------------------------------------------
(* Persistence interface of the verifier (VerifierDB): a keyed store *)

get_pub_nonces(d) ==
    IF IsSome(nonces[d])
    THEN Some([i \in 1..Len(Unwrap(nonces[d])) |-> Unwrap(nonces[d])[i].pub])
    ELSE None

\* get_nonces(deposit, idx): (pub nonce, sec nonce, agg nonce) of 0-based slot idx
get_nonces(d, idx) ==
    IF /\ IsSome(nonces[d]) /\ idx < Len(Unwrap(nonces[d]))
       /\ IsSome(agg_nonces[d]) /\ idx < Len(Unwrap(agg_nonces[d]))
    THEN Some(<<Unwrap(nonces[d])[idx + 1].pub, Unwrap(nonces[d])[idx + 1].sec,
                Unwrap(agg_nonces[d])[idx + 1]>>)
    ELSE None

get_kickoff_outpoints_and_amounts(d) == kickoffs[d]

get_deposit_info(d) == deposit_infos[d]

----------------------------------------------------------------------------
(* MuSig2 *)

\* musig::nonce_pair: batch g of the random source, position k (0-based)
nonce_pair(g, k) == [pub |-> [pub_of |-> g, slot |-> k], sec |-> [sec_of |-> g, slot |-> k]]

\* musig::partial_sign(vec![], agg_nonce, keypair, sec_nonce, sighash, None, None)
partial_sign(agg, key, sec, msg) == [key |-> key, sec |-> sec, agg |-> agg, msg |-> msg]

----------------------------------------------------------------------------
(* Transaction templates used by the verifier *)

TxOut(value, spk) == [value |-> value, script_pubkey |-> spk]

anyone_can_spend_txout == TxOut(ANYONE_CAN_SPEND_SATS, "anyone_can_spend")

create_tx_ins(utxos) ==
    [i \in 1..Len(utxos) |-> [previous_output |-> utxos[i],
                              sequence |-> "ENABLE_RBF_NO_LOCKTIME"]]

create_btc_tx(ins, outs) == [version |-> 2, lock_time |-> 0, input |-> ins, output |-> outs]

DepositOutPoint(d) == [txid |-> [txid_of |-> d], vout |-> 0]

\* the operator-take transaction rebuilt for one registered kickoff
OperatorTakeTx(d, kickoff_outpoint, kickoff_amount) ==
    LET tx1 == create_btc_tx(create_tx_ins(<<kickoff_outpoint>>),
                             <<TxOut(kickoff_amount - 330, "signer_address"),
                               anyone_can_spend_txout>>)
    IN  create_btc_tx(
            create_tx_ins(<<DepositOutPoint(d), [txid |-> Txid(tx1), vout |-> 0]>>),
            <<TxOut(kickoff_amount - 330 + BRIDGE_AMOUNT_SATS - 330, "signer_address"),
              anyone_can_spend_txout>>)

OperatorTakePrevouts(kickoff_amount) ==
    <<TxOut(BRIDGE_AMOUNT_SATS - MinRelayFee - 330, "signer_address"),
      TxOut(kickoff_amount, "signer_address")>>

\* taproot_script_spend_signature_hash(0, Prevouts::All, leaf of the n-of-n script, Default)
OperatorTakeSighash(d, kickoff) ==
    [tx |-> OperatorTakeTx(d, kickoff[1], kickoff[2]),
     prevouts |-> OperatorTakePrevouts(kickoff[2]),
     leaf |-> "n_of_n"]

----------------------------------------------------------------------------
(* The verifier's calls, one action per handler *)

\* what a call leaves in `last`; repeat marks a burn_txs_signed that directly follows
\* a burn_txs_signed for the same deposit
Call(op, d, res) ==
    [op |-> op, d |-> d, info |-> <<>>, req |-> NoRequest, sigs |-> <<>>, res |-> res,
     repeat |-> FALSE]

\* new_deposit without the lookup of the cached nonces: every accepted call regenerates
NewDepositNoCache(d, rec, evm, chk) ==
    LET g == nonce_ctr + 1
        fresh == [k \in 1..NUM_REQUIRED_SIGS |-> nonce_pair(g, k - 1)]
        done(res) == last' = [Call("new_deposit", d, res) EXCEPT !.info = <<rec, evm>>]
    IN  IF ~chk
        THEN /\ done(Err("InvalidDepositUtxo"))
             /\ UNCHANGED <<deposit_infos, nonces, agg_nonces, kickoffs, nonce_ctr, uses>>
        ELSE /\ nonce_ctr' = g
             /\ deposit_infos' = [deposit_infos EXCEPT ![d] = Some(<<rec, evm>>)]
             /\ nonces' = [nonces EXCEPT ![d] = Some(fresh)]
             /\ done(Ok([k \in 1..NUM_REQUIRED_SIGS |-> fresh[k].pub]))
             /\ UNCHANGED <<agg_nonces, kickoffs, uses>>

\* Verifier::new_deposit; chk is the outcome of rpc.check_deposit_utxo
NewDeposit(d, rec, evm, chk) ==
    LET cached == get_pub_nonces(d)
        g == nonce_ctr + 1
        fresh == [k \in 1..NUM_REQUIRED_SIGS |-> nonce_pair(g, k - 1)]
        done(res) == last' = [Call("new_deposit", d, res) EXCEPT !.info = <<rec, evm>>]
    IN  IF ~chk
        THEN /\ done(Err("InvalidDepositUtxo"))
             /\ UNCHANGED <<deposit_infos, nonces, agg_nonces, kickoffs, nonce_ctr, uses>>
        ELSE IF IsSome(cached)
        THEN /\ done(Ok(Unwrap(cached)))
             /\ UNCHANGED <<deposit_infos, nonces, agg_nonces, kickoffs, nonce_ctr, uses>>
        ELSE /\ nonce_ctr' = g
             /\ deposit_infos' = [deposit_infos EXCEPT ![d] = Some(<<rec, evm>>)]
             /\ nonces' = [nonces EXCEPT ![d] = Some(fresh)]
             /\ done(Ok([k \in 1..NUM_REQUIRED_SIGS |-> fresh[k].pub]))
             /\ UNCHANGED <<agg_nonces, kickoffs, uses>>

\* the kickoff loop with the value check made on the first entry only
RECURSIVE KickoffLoopFirstValueOnly(_, _, _, _)
KickoffLoopFirstValueOnly(d, ku, sigs, i) ==
    IF i > Len(ku) THEN ""
    ELSE IF ku[i].vout >= Len(ku[i].tx.output) THEN "panic"
    ELSE IF i = 1 /\ ku[i].tx.output[ku[i].vout + 1] < MIN_KICKOFF_SATS THEN "InvalidKickoffUtxo"
    ELSE IF ~verify_schnorr(sigs[i], KickoffSigHash(d, ku[i]), SignerKey)
    THEN "SignatureVerificationFailed"
    ELSE KickoffLoopFirstValueOnly(d, ku, sigs, i + 1)

\* the loop with the value compared by <= instead of <
RECURSIVE KickoffLoopValueAtMost(_, _, _, _)
KickoffLoopValueAtMost(d, ku, sigs, i) ==
    IF i > Len(ku) THEN ""
    ELSE IF ku[i].vout >= Len(ku[i].tx.output) THEN "panic"
    ELSE IF ku[i].tx.output[ku[i].vout + 1] <= MIN_KICKOFF_SATS THEN "InvalidKickoffUtxo"
    ELSE IF ~verify_schnorr(sigs[i], KickoffSigHash(d, ku[i]), SignerKey)
    THEN "SignatureVerificationFailed"
    ELSE KickoffLoopValueAtMost(d, ku, sigs, i + 1)

\* the loop with the operator signature of an entry verified before its value
RECURSIVE KickoffLoopSignatureFirst(_, _, _, _)
KickoffLoopSignatureFirst(d, ku, sigs, i) ==
    IF i > Len(ku) THEN ""
    ELSE IF ku[i].vout >= Len(ku[i].tx.output) THEN "panic"
    ELSE IF ~verify_schnorr(sigs[i], KickoffSigHash(d, ku[i]), SignerKey)
    THEN "SignatureVerificationFailed"
    ELSE IF ku[i].tx.output[ku[i].vout + 1] < MIN_KICKOFF_SATS THEN "InvalidKickoffUtxo"
    ELSE KickoffLoopSignatureFirst(d, ku, sigs, i + 1)

\* the loop of operator_kickoffs_generated over the declared kickoffs, from entry i on:
\* "" when every entry passes, else how the loop ends
RECURSIVE KickoffLoop(_, _, _, _)
KickoffLoop(d, ku, sigs, i) ==
    IF i > Len(ku) THEN ""
    ELSE IF ku[i].vout >= Len(ku[i].tx.output) THEN "panic"
    ELSE IF ku[i].tx.output[ku[i].vout + 1] < MIN_KICKOFF_SATS THEN "InvalidKickoffUtxo"
    ELSE IF ~verify_schnorr(sigs[i], KickoffSigHash(d, ku[i]), SignerKey)
    THEN "SignatureVerificationFailed"
    ELSE KickoffLoop(d, ku, sigs, i + 1)

\* the validation with the comparison of the two counts made after the loop
KickoffValidationCountLast(d, req) ==
    LET v == KickoffLoop(d, req.kickoff_utxos, req.sigs, 1)
    IN  IF v # "" THEN v
        ELSE IF Len(req.sigs) # Len(req.kickoff_utxos) THEN "InvalidKickoffUtxo"
        ELSE ""

\* how the validation of operator_kickoffs_generated ends: "" when it passes
KickoffValidation(d, req) ==
    IF Len(req.sigs) # Len(req.kickoff_utxos) THEN "InvalidKickoffUtxo"
    ELSE KickoffLoop(d, req.kickoff_utxos, req.sigs, 1)

kickoff_outpoints_and_amounts(ku) ==
    [i \in 1..Len(ku) |-> <<[txid |-> Txid(ku[i].tx), vout |-> ku[i].vout],
                            ku[i].tx.output[ku[i].vout + 1]>>]

\* operator_kickoffs_generated that saves the aggregated nonces before it validates
OperatorKickoffsGeneratedSaveFirst(d, req) ==
    LET v == KickoffValidation(d, req)
        done(res) == last' = [Call("operator_kickoffs_generated", d, res) EXCEPT !.req = req]
    IN  /\ agg_nonces' = [agg_nonces EXCEPT ![d] = Some(req.agg_nonces)]
        /\ IF v = "panic"
           THEN /\ done(Panic)
                /\ UNCHANGED <<deposit_infos, nonces, kickoffs, nonce_ctr, uses>>
           ELSE IF v # ""
           THEN /\ done(Err(v))
                /\ UNCHANGED <<deposit_infos, nonces, kickoffs, nonce_ctr, uses>>
           ELSE /\ kickoffs' = [kickoffs EXCEPT
                                  ![d] = Some(kickoff_outpoints_and_amounts(req.kickoff_utxos))]
                /\ done(Ok(<<>>))
                /\ UNCHANGED <<deposit_infos, nonces, nonce_ctr, uses>>

\* operator_kickoffs_generated whose save_agg_nonces writes the row of every deposit
OperatorKickoffsGeneratedEveryRow(d, req) ==
    LET v == KickoffValidation(d, req)
        done(res) == last' = [Call("operator_kickoffs_generated", d, res) EXCEPT !.req = req]
    IN  IF v = "panic"
        THEN /\ done(Panic)
             /\ UNCHANGED <<deposit_infos, nonces, agg_nonces, kickoffs, nonce_ctr, uses>>
        ELSE IF v # ""
        THEN /\ done(Err(v))
             /\ UNCHANGED <<deposit_infos, nonces, agg_nonces, kickoffs, nonce_ctr, uses>>
        ELSE /\ agg_nonces' = [e \in Deposits |-> Some(req.agg_nonces)]
             /\ kickoffs' = [kickoffs EXCEPT
                               ![d] = Some(kickoff_outpoints_and_amounts(req.kickoff_utxos))]
             /\ done(Ok(<<>>))
             /\ UNCHANGED <<deposit_infos, nonces, nonce_ctr, uses>>

\* Verifier::operator_kickoffs_generated
OperatorKickoffsGenerated(d, req) ==
    LET v == KickoffValidation(d, req)
        done(res) == last' = [Call("operator_kickoffs_generated", d, res) EXCEPT !.req = req]
    IN  IF v = "panic"
        THEN /\ done(Panic)
             /\ UNCHANGED <<deposit_infos, nonces, agg_nonces, kickoffs, nonce_ctr, uses>>
        ELSE IF v # ""
        THEN /\ done(Err(v))
             /\ UNCHANGED <<deposit_infos, nonces, agg_nonces, kickoffs, nonce_ctr, uses>>
        ELSE /\ agg_nonces' = [agg_nonces EXCEPT ![d] = Some(req.agg_nonces)]
             /\ kickoffs' = [kickoffs EXCEPT
                               ![d] = Some(kickoff_outpoints_and_amounts(req.kickoff_utxos))]
             /\ done(Ok(<<>>))
             /\ UNCHANGED <<deposit_infos, nonces, nonce_ctr, uses>>

\* burn_txs_signed_rpc taking a deposit without registered kickoffs as one with an
\* empty kickoff set
BurnTxsSignedEmptyDefault(d) ==
    LET ko == get_kickoff_outpoints_and_amounts(d)
        ks == IF IsSome(ko) THEN Unwrap(ko) ELSE <<>>
        ns == [i \in 1..Len(ks) |-> get_nonces(d, (i - 1) + 2)]
        sigs == [i \in 1..Len(ks) |->
                    partial_sign(Unwrap(ns[i])[3], SignerKey, Unwrap(ns[i])[2],
                                 OperatorTakeSighash(d, ks[i]))]
        done(res) == last' = [Call("burn_txs_signed", d, res) EXCEPT
                                  !.repeat = (last.op = "burn_txs_signed" /\ last.d = d)]
    IN  IF \E i \in 1..Len(ks) : ~IsSome(ns[i])
        THEN /\ done(Err("NoncesNotFound"))
             /\ UNCHANGED <<deposit_infos, nonces, agg_nonces, kickoffs, nonce_ctr, uses>>
        ELSE /\ uses' = uses \cup {[sec |-> sigs[i].sec, msg |-> sigs[i].msg] :
                                      i \in 1..Len(ks)}
             /\ done(Ok(sigs))
             /\ UNCHANGED <<deposit_infos, nonces, agg_nonces, kickoffs, nonce_ctr>>

\* burn_txs_signed_rpc reading the nonce of kickoff i at slot i
BurnTxsSignedSlotFromZero(d) ==
    LET ko == get_kickoff_outpoints_and_amounts(d)
        ks == Unwrap(ko)
        ns == [i \in 1..Len(ks) |-> get_nonces(d, i - 1)]
        sigs == [i \in 1..Len(ks) |->
                    partial_sign(Unwrap(ns[i])[3], SignerKey, Unwrap(ns[i])[2],
                                 OperatorTakeSighash(d, ks[i]))]
        done(res) == last' = [Call("burn_txs_signed", d, res) EXCEPT
                                  !.repeat = (last.op = "burn_txs_signed" /\ last.d = d)]
    IN  IF ~IsSome(ko)
        THEN /\ done(Err("KickoffOutpointsNotFound"))
             /\ UNCHANGED <<deposit_infos, nonces, agg_nonces, kickoffs, nonce_ctr, uses>>
        ELSE IF \E i \in 1..Len(ks) : ~IsSome(ns[i])
        THEN /\ done(Err("NoncesNotFound"))
             /\ UNCHANGED <<deposit_infos, nonces, agg_nonces, kickoffs, nonce_ctr, uses>>
        ELSE /\ uses' = uses \cup {[sec |-> sigs[i].sec, msg |-> sigs[i].msg] :
                                      i \in 1..Len(ks)}
             /\ done(Ok(sigs))
             /\ UNCHANGED <<deposit_infos, nonces, agg_nonces, kickoffs, nonce_ctr>>

\* burn_txs_signed_rpc that takes the kickoffs it signed out of the store
BurnTxsSignedTakesKickoffs(d) ==
    LET ko == get_kickoff_outpoints_and_amounts(d)
        ks == Unwrap(ko)
        ns == [i \in 1..Len(ks) |-> get_nonces(d, (i - 1) + 2)]
        sigs == [i \in 1..Len(ks) |->
                    partial_sign(Unwrap(ns[i])[3], SignerKey, Unwrap(ns[i])[2],
                                 OperatorTakeSighash(d, ks[i]))]
        done(res) == last' = [Call("burn_txs_signed", d, res) EXCEPT
                                  !.repeat = (last.op = "burn_txs_signed" /\ last.d = d)]
    IN  IF ~IsSome(ko)
        THEN /\ done(Err("KickoffOutpointsNotFound"))
             /\ UNCHANGED <<deposit_infos, nonces, agg_nonces, kickoffs, nonce_ctr, uses>>
        ELSE IF \E i \in 1..Len(ks) : ~IsSome(ns[i])
        THEN /\ done(Err("NoncesNotFound"))
             /\ UNCHANGED <<deposit_infos, nonces, agg_nonces, kickoffs, nonce_ctr, uses>>
        ELSE /\ uses' = uses \cup {[sec |-> sigs[i].sec, msg |-> sigs[i].msg] :
                                      i \in 1..Len(ks)}
             /\ done(Ok(sigs))
             /\ kickoffs' = [kickoffs EXCEPT ![d] = None]
             /\ UNCHANGED <<deposit_infos, nonces, agg_nonces, nonce_ctr>>

\* Verifier::burn_txs_signed_rpc
BurnTxsSigned(d) ==
    LET ko == get_kickoff_outpoints_and_amounts(d)
        ks == Unwrap(ko)
        ns == [i \in 1..Len(ks) |-> get_nonces(d, (i - 1) + 2)]
        sigs == [i \in 1..Len(ks) |->
                    partial_sign(Unwrap(ns[i])[3], SignerKey, Unwrap(ns[i])[2],
                                 OperatorTakeSighash(d, ks[i]))]
        done(res) == last' = [Call("burn_txs_signed", d, res) EXCEPT
                                  !.repeat = (last.op = "burn_txs_signed" /\ last.d = d)]
    IN  IF ~IsSome(ko)
        THEN /\ done(Err("KickoffOutpointsNotFound"))
             /\ UNCHANGED <<deposit_infos, nonces, agg_nonces, kickoffs, nonce_ctr, uses>>
        ELSE IF \E i \in 1..Len(ks) : ~IsSome(ns[i])
        THEN /\ done(Err("NoncesNotFound"))
             /\ UNCHANGED <<deposit_infos, nonces, agg_nonces, kickoffs, nonce_ctr, uses>>
        ELSE /\ uses' = uses \cup {[sec |-> sigs[i].sec, msg |-> sigs[i].msg] :
                                      i \in 1..Len(ks)}
             /\ done(Ok(sigs))
             /\ UNCHANGED <<deposit_infos, nonces, agg_nonces, kickoffs, nonce_ctr>>

\* the closure handed to .map() in operator_take_txs_signed_rpc for kickoff index i
\* (1-based here): TRUE when the supplied signature verifies, FALSE when unwrap() panics
OperatorTakeSigVerifies(d, ks, sigs, i) ==
    /\ i <= Len(sigs)
    /\ verify_schnorr(sigs[i], OperatorTakeSighash(d, ks[i]), SignerKey)

\* operator_take_txs_signed_rpc without the lookup of the deposit metadata
OperatorTakeTxsSignedNoDepositInfo(d, sigs) ==
    LET ko == get_kickoff_outpoints_and_amounts(d)
        done(res) == last' = [Call("operator_take_txs_signed", d, res) EXCEPT !.sigs = sigs]
    IN  /\ IF ~IsSome(ko) THEN done(Err("KickoffOutpointsNotFound"))
           ELSE done(Ok(<<"zero32", "zero32">>))
        /\ UNCHANGED <<deposit_infos, nonces, agg_nonces, kickoffs, nonce_ctr, uses>>

\* Verifier::operator_take_txs_signed_rpc. The iterator built by .map() over the
\* registered kickoffs is dropped without being consumed, so its closure never runs.
OperatorTakeTxsSigned(d, sigs) ==
    LET ko == get_kickoff_outpoints_and_amounts(d)
        done(res) == last' = [Call("operator_take_txs_signed", d, res) EXCEPT !.sigs = sigs]
    IN  /\ IF ~IsSome(ko) THEN done(Err("KickoffOutpointsNotFound"))
           ELSE IF ~IsSome(get_deposit_info(d)) THEN done(Err("DepositInfoNotFound"))
           ELSE done(Ok(<<"zero32", "zero32">>))
        /\ UNCHANGED <<deposit_infos, nonces, agg_nonces, kickoffs, nonce_ctr, uses>>

----------------------------------------------------------------------------
(* Requests the callers make *)

KickoffRequests(d) ==
    {r \in UNION {{[agg_nonces |-> agg, kickoff_utxos |-> ku, sigs |-> sigs] :
                      agg \in AggChoices, sigs \in KickoffSigLists(d, ku)} :
                     ku \in KickoffBatches} :
        KickoffValidation(d, r) = "" \/ r.agg_nonces = DefaultAgg}

\* signatures an operator supplies to operator_take_txs_signed: for each position the
\* digest of the registered kickoff (when there is one) under the expected or a
\* foreign key
NoDigest == [tx |-> create_btc_tx(<<>>, <<>>), prevouts |-> <<>>, leaf |-> "none"]

TakeSigLists(d) ==
    LET ks == IF IsSome(kickoffs[d]) THEN Unwrap(kickoffs[d]) ELSE <<>>
        digest(i) == IF i <= Len(ks) THEN OperatorTakeSighash(d, ks[i]) ELSE NoDigest
    IN  {[i \in 1..Len(keys) |-> SchnorrSign(keys[i], digest(i))] :
            keys \in [1..Len(ks) -> {SignerKey, ForeignKey}] \cup {<<>>}}

----------------------------------------------------------------------------
(* Rest states of the parts a specification does not exercise *)

\* longest list config.verifiers_public_keys in the model
MaxVerifierKeys == 3

NewIdle == [pc |-> "idle", secret_key |-> "", verifiers_public_keys |-> <<>>,
            db |-> FALSE, res |-> Ok(<<>>)]

\* number of concurrent callers
NumProcs == 2

Procs == 1..NumProcs

\* the writes a transaction holds back until its commit
NoWrites == [deposit_info |-> <<>>, nonces |-> <<>>]

\* after_nonces is history: the deposit had stored nonces when the call was made
ProcIdle ==
    [pc |-> "idle", d |-> "D1", info |-> <<>>, gen |-> <<>>, txn |-> NoWrites,
     after_nonces |-> FALSE, res |-> Ok(<<>>)]

ProcsIdle == [p \in Procs |-> ProcIdle]

\* number of operator_kickoffs_generated calls made while a burn_txs_signed call runs
MaxKickoffCalls == 2

KickoffCalls == 1..MaxKickoffCalls

OkgIdle == [pc |-> "idle", d |-> "D1", req |-> NoRequest, res |-> Ok(<<>>)]

OkgCallsIdle == [c \in KickoffCalls |-> OkgIdle]

BurnIdle == [pc |-> "idle", d |-> "D1", ks |-> <<>>, ns |-> <<>>, res |-> Ok(<<>>)]

\* withdrawal indices used in the model: 0..MaxWithdrawalIdx
MaxWithdrawalIdx == 1

WithdrawalIdxs == 0..MaxWithdrawalIdx

NoWithdrawals == [i \in WithdrawalIdxs |-> None]

NoWithdrawalCall == [idx |-> 0, txid |-> "", addr |-> "", signed |-> FALSE, res |-> Ok(<<>>)]

\* deepest connector tree, largest dust value and largest relay fee of the model
MaxDepth == 3

MaxDust == 3

MaxFee == 3

TreeIdle ==
    [pc |-> "idle", depth |-> 0, dust |-> 0, fee |-> 0, total_amount |-> 0,
     i |-> 0, j |-> 0, utxo_binary_tree |-> <<>>, utxo_tree_current_level |-> <<>>,
     txs |-> <<>>]

\* longest list of script leaves handed to create_taproot_address
MaxLeaves == 16

TapIdle ==
    [pc |-> "idle", n |-> 0, m |-> 0, k |-> 0, i |-> 0, depths |-> <<>>, branch |-> <<>>,
     res |-> Ok(<<>>)]

\* tasks calling the Database at the same time
NumDbTasks == 3

DbTasks == 1..NumDbTasks

\* highest period a call names
MaxPeriod == 1

Periods == 0..MaxPeriod

\* most leaves added to the withdrawals merkle tree
MaxMerkleAdds == 2

\* MerkleTree::new()
MerkleTreeNew == [index |-> 0, leaves |-> <<>>]

\* DatabaseContent::new()
DatabaseContentNew ==
    [inscribed_connector_tree_preimages |-> <<>>,
     connector_tree_hashes |-> <<>>,
     claim_proof_merkle_trees |-> <<>>,
     inscription_txs |-> <<>>,
     deposit_txs |-> <<>>,
     withdrawals_merkle_tree |-> MerkleTreeNew,
     withdrawals_payment_txids |-> <<>>,
     start_block_height |-> 0]

\* no task is in a call; `added` and `written` are the history of the calls that
\* returned and of the values the callers have written, by setter
DatabaseIdle ==
    [content |-> DatabaseContentNew, lock |-> 0,
     tasks |-> [p \in DbTasks |->
                  [pc |-> "idle", op |-> "", arg |-> <<>>, content |-> DatabaseContentNew]],
     added |-> <<>>,
     written |-> [connector_tree_hashes |-> None, claim_proof_merkle_trees |-> None,
                  start_block_height |-> None,
                  preimages |-> [period \in Periods |-> None], merkle_adds |-> 0],
     last |-> [op |-> "none", arg |-> <<>>, res |-> <<>>]]

\* bytes of a wrapped value in the model (a txid has 32, an EVM address 20, a
\* signature 64)
WrapperBytes == 2

CodecIdle == [pc |-> "idle", kind |-> "", value |-> <<>>, text |-> <<>>, decoded |-> Ok(<<>>)]

----------------------------------------------------------------------------
(* Sequential calls on one verifier *)

InitVerifier ==
    /\ deposit_infos = [d \in Deposits |-> None]
    /\ nonces = [d \in Deposits |-> None]
    /\ agg_nonces = [d \in Deposits |-> None]
    /\ kickoffs = [d \in Deposits |-> None]
    /\ nonce_ctr = 0
    /\ uses = {}
    /\ last = Call("none", "D1", Ok(<<>>))

Init ==
    /\ InitVerifier
    /\ ctor = NewIdle
    /\ procs = ProcsIdle
    /\ okg_calls = OkgCallsIdle
    /\ burn_call = BurnIdle
    /\ withdrawal_sigs = NoWithdrawals
    /\ wlast = NoWithdrawalCall
    /\ tree = TreeIdle
    /\ tap = TapIdle
    /\ database = DatabaseIdle
    /\ codec = CodecIdle

SeqDeposits == {"D1"}

SeqRecovery == {"R1"}

VerifierOnly ==
    UNCHANGED <<ctor, procs, okg_calls, burn_call, withdrawal_sigs, wlast, tree, tap,
                database, codec>>

Next ==
    \/ \E d \in SeqDeposits, rec \in SeqRecovery, evm \in EvmAddresses, chk \in BOOLEAN :
          NewDeposit(d, rec, evm, chk) /\ VerifierOnly
    \/ \E d \in SeqDeposits : \E req \in KickoffRequests(d) :
          OperatorKickoffsGenerated(d, req) /\ VerifierOnly
    \/ \E d \in SeqDeposits : BurnTxsSigned(d) /\ VerifierOnly
    \/ \E d \in SeqDeposits : \E sigs \in TakeSigLists(d) :
          OperatorTakeTxsSigned(d, sigs) /\ VerifierOnly

Spec == Init /\ [][Next]_vars

----------------------------------------------------------------------------
(* Concurrent new_deposit calls: each call suspends at its awaits, so another call *)
(* may run between any two of its calls on the store                              *)

ConcOnly ==
    UNCHANGED <<agg_nonces, kickoffs, uses, last, ctor, okg_calls, burn_call,
                withdrawal_sigs, wlast, tree, tap, database, codec>>

\* new_deposit up to its first await: rpc.check_deposit_utxo(...)?
NdCall(p, d, rec, evm, chk) ==
    /\ procs[p].pc = "idle"
    /\ procs' = [procs EXCEPT ![p] =
                    [pc |-> IF chk THEN "get_pub_nonces" ELSE "done", d |-> d,
                     info |-> <<rec, evm>>, gen |-> None,
                     txn |-> NoWrites, after_nonces |-> IsSome(nonces[d]),
                     res |-> IF chk THEN Ok(<<>>) ELSE Err("InvalidDepositUtxo")]]
    /\ UNCHANGED <<deposit_infos, nonces, nonce_ctr>>

\* self.db.get_pub_nonces(deposit_utxo).await returning early without the store: the
\* nonce batch is generated and its public halves are returned at once
NdGetPubNoncesReturnEarly(p) ==
    /\ procs[p].pc = "get_pub_nonces"
    /\ LET g == nonce_ctr + 1
           fresh == [k \in 1..NUM_REQUIRED_SIGS |-> nonce_pair(g, k - 1)]
       IN  /\ procs' = [procs EXCEPT ![p].pc = "done", ![p].gen = Some(fresh),
                                     ![p].res = Ok([k \in 1..Len(fresh) |-> fresh[k].pub])]
           /\ nonce_ctr' = g
    /\ UNCHANGED <<deposit_infos, nonces>>

\* new_deposit generating its batch over the range 1..num_required_sigs
NdGetPubNoncesFromOne(p) ==
    /\ procs[p].pc = "get_pub_nonces"
    /\ LET cached == get_pub_nonces(procs[p].d)
           g == nonce_ctr + 1
           fresh == [k \in 1..(NUM_REQUIRED_SIGS - 1) |-> nonce_pair(g, k)]
       IN  IF IsSome(cached)
           THEN /\ procs' = [procs EXCEPT ![p].pc = "done", ![p].res = Ok(Unwrap(cached))]
                /\ UNCHANGED nonce_ctr
           ELSE /\ procs' = [procs EXCEPT ![p].pc = "begin_transaction",
                                          ![p].gen = Some(fresh)]
                /\ nonce_ctr' = g
    /\ UNCHANGED <<deposit_infos, nonces>>

\* new_deposit without the early return on a cached set: a batch is always generated
NdGetPubNoncesNoCache(p) ==
    /\ procs[p].pc = "get_pub_nonces"
    /\ LET g == nonce_ctr + 1
           fresh == [k \in 1..NUM_REQUIRED_SIGS |-> nonce_pair(g, k - 1)]
       IN  /\ procs' = [procs EXCEPT ![p].pc = "begin_transaction", ![p].gen = Some(fresh)]
           /\ nonce_ctr' = g
    /\ UNCHANGED <<deposit_infos, nonces>>

\* self.db.get_pub_nonces(deposit_utxo).await, the early return on a cached set, and
\* otherwise the generation of the nonce batch
NdGetPubNonces(p) ==
    /\ procs[p].pc = "get_pub_nonces"
    /\ LET cached == get_pub_nonces(procs[p].d)
           g == nonce_ctr + 1
           fresh == [k \in 1..NUM_REQUIRED_SIGS |-> nonce_pair(g, k - 1)]
       IN  IF IsSome(cached)
           THEN /\ procs' = [procs EXCEPT ![p].pc = "done", ![p].res = Ok(Unwrap(cached))]
                /\ UNCHANGED nonce_ctr
           ELSE /\ procs' = [procs EXCEPT ![p].pc = "begin_transaction",
                                          ![p].gen = Some(fresh)]
                /\ nonce_ctr' = g
    /\ UNCHANGED <<deposit_infos, nonces>>

\* a write made between begin_transaction and commit is held by the transaction
save_deposit_info(txn, info) == [txn EXCEPT !.deposit_info = Some(info)]

save_nonces(txn, pairs) == [txn EXCEPT !.nonces = Some(pairs)]

\* self.db.begin_transaction().await?
NdBeginTransaction(p) ==
    /\ procs[p].pc = "begin_transaction"
    /\ procs' = [procs EXCEPT ![p].pc = "save_deposit_info", ![p].txn = NoWrites]
    /\ UNCHANGED <<deposit_infos, nonces, nonce_ctr>>

\* save_deposit_info writing to the store at once instead of inside the transaction
NdSaveDepositInfoDirect(p) ==
    /\ procs[p].pc = "save_deposit_info"
    /\ deposit_infos' = [deposit_infos EXCEPT ![procs[p].d] = Some(procs[p].info)]
    /\ procs' = [procs EXCEPT ![p].pc = "save_nonces"]
    /\ UNCHANGED <<nonces, nonce_ctr>>

\* self.db.save_deposit_info(deposit_utxo, recovery_taproot_address, evm_address).await?
NdSaveDepositInfo(p) ==
    /\ procs[p].pc = "save_deposit_info"
    /\ procs' = [procs EXCEPT ![p].pc = "save_nonces",
                              ![p].txn = save_deposit_info(procs[p].txn, procs[p].info)]
    /\ UNCHANGED <<deposit_infos, nonces, nonce_ctr>>

\* self.db.save_nonces(deposit_utxo, &nonces).await?
NdSaveNonces(p) ==
    /\ procs[p].pc = "save_nonces"
    /\ procs' = [procs EXCEPT ![p].pc = "commit",
                              ![p].txn = save_nonces(procs[p].txn, Unwrap(procs[p].gen))]
    /\ UNCHANGED <<deposit_infos, nonces, nonce_ctr>>

\* what the store does at the commit of a write for a deposit that already has a row:
\* an upsert or a constraint violation
ConflictPolicies == {"overwrite", "error"}

\* transaction.commit().await?, applying the writes of the transaction together, and
\* the return of the public halves of the nonces this call generated
NdCommit(p, on_conflict) ==
    /\ procs[p].pc = "commit"
    /\ LET mine == Unwrap(procs[p].gen)
           d == procs[p].d
           conflict == IsSome(nonces[d]) \/ IsSome(deposit_infos[d])
       IN  IF conflict /\ on_conflict = "error"
           THEN /\ procs' = [procs EXCEPT ![p].pc = "done", ![p].res = Err("DatabaseError")]
                /\ UNCHANGED <<deposit_infos, nonces>>
           ELSE /\ deposit_infos' = [deposit_infos EXCEPT ![d] = procs[p].txn.deposit_info]
                /\ nonces' = [nonces EXCEPT ![d] = procs[p].txn.nonces]
                /\ procs' = [procs EXCEPT ![p].pc = "done",
                                          ![p].res = Ok([k \in 1..Len(mine) |-> mine[k].pub])]
    /\ UNCHANGED nonce_ctr

\* the calls of new_deposit on the store, each followed by .await?
StoreCalls == {"get_pub_nonces", "begin_transaction", "save_deposit_info", "save_nonces",
               "commit"}

\* a store call fails, or the caller drops the call while it is suspended there: the
\* call ends with the error and an open transaction is rolled back
NdStoreFailure(p) ==
    /\ procs[p].pc \in StoreCalls
    /\ procs' = [procs EXCEPT ![p].pc = "done", ![p].res = Err("DatabaseError")]
    /\ UNCHANGED <<deposit_infos, nonces, nonce_ctr>>

NextConc ==
    \/ \E p \in Procs, d \in Deposits, rec \in RecoveryAddresses, evm \in EvmAddresses,
          chk \in BOOLEAN : NdCall(p, d, rec, evm, chk) /\ ConcOnly
    \/ \E p \in Procs : NdGetPubNonces(p) /\ ConcOnly
    \/ \E p \in Procs : NdBeginTransaction(p) /\ ConcOnly
    \/ \E p \in Procs : NdSaveDepositInfo(p) /\ ConcOnly
    \/ \E p \in Procs : NdSaveNonces(p) /\ ConcOnly
    \/ \E p \in Procs, on_conflict \in ConflictPolicies : NdCommit(p, on_conflict) /\ ConcOnly
    \/ \E p \in Procs : NdStoreFailure(p) /\ ConcOnly

SpecConc == Init /\ [][NextConc]_vars

\* C3 (as claimed): every concurrent new_deposit call that returns nonces returns the
\* public halves of the one nonce set that is stored for the deposit, so a set that a
\* call has returned is never replaced and no call returns a set that is not stored.
C3_SingleWinner ==
    \A p \in Procs :
        (procs[p].pc = "done" /\ procs[p].res.ok) =>
            Some(procs[p].res.val) = get_pub_nonces(procs[p].d)

C25_MetadataImmutable ==
    [][\A d \in Deposits :
          /\ IsSome(nonces[d]) => IsSome(nonces'[d])
          /\ IsSome(deposit_infos[d]) => IsSome(deposit_infos'[d])
          /\ \A p \in Procs :
                (procs'[p] # procs[p] /\ procs'[p].after_nonces /\ procs'[p].d = d)
                    => (deposit_infos'[d] = deposit_infos[d] /\ nonces'[d] = nonces[d])]_vars

\* C25 witness: a call made after the nonces existed, with a recovery address other
\* than the stored one, has returned and the stored metadata is still the earlier one
C25_Witness ==
    \E p \in Procs :
        /\ procs[p].pc = "done" /\ procs[p].res.ok /\ procs[p].after_nonces
        /\ IsSome(deposit_infos[procs[p].d])
        /\ procs[p].info # Unwrap(deposit_infos[procs[p].d])

\* C27: every new_deposit call that succeeds returns exactly 10 public nonces, no two
\* of them equal, whether it generated them or read the stored set.
C27_TenPublicNonces ==
    \A p \in Procs :
        (procs[p].pc = "done" /\ procs[p].res.ok) =>
            /\ Len(procs[p].res.val) = 10
            /\ Cardinality(Range(procs[p].res.val)) = 10

\* C27 witness: one call has returned the batch it generated and another the stored set
C27_Witness ==
    \E p, q \in Procs :
        /\ procs[p].pc = "done" /\ procs[p].res.ok /\ IsSome(procs[p].gen)
        /\ procs[q].pc = "done" /\ procs[q].res.ok /\ ~IsSome(procs[q].gen)
        /\ procs[q].res.val = procs[p].res.val /\ Len(procs[q].res.val) = 10

----------------------------------------------------------------------------
(* operator_kickoffs_generated and burn_txs_signed calls that suspend at their awaits, *)
(* so that one call may run between two store calls of another                        *)

KickoffOnly == 
    UNCHANGED <<ctor, procs, withdrawal_sigs, wlast, tree, tap, database, codec>>

\* operator_kickoffs_generated up to its first await: the validation and the list of
\* outpoints and amounts. Calls take the call slots in order.
OkgCall(c, d, req) ==
    /\ okg_calls[c].pc = "idle"
    /\ \A b \in KickoffCalls : b < c => okg_calls[b].pc # "idle"
    /\ LET v == KickoffValidation(d, req)
       IN  okg_calls' = [okg_calls EXCEPT ![c] =
                            [pc |-> IF v = "" THEN "save_agg_nonces" ELSE "done", d |-> d,
                             req |-> req,
                             res |-> IF v = "" THEN Ok(<<>>)
                                     ELSE IF v = "panic" THEN Panic ELSE Err(v)]]
    /\ UNCHANGED <<deposit_infos, nonces, agg_nonces, kickoffs, nonce_ctr, uses, last,
                   burn_call>>

\* self.db.save_agg_nonces(deposit_utxo, &agg_nonces).await?
OkgSaveAggNonces(c) ==
    /\ okg_calls[c].pc = "save_agg_nonces"
    /\ agg_nonces' = [agg_nonces EXCEPT ![okg_calls[c].d] = Some(okg_calls[c].req.agg_nonces)]
    /\ okg_calls' = [okg_calls EXCEPT ![c].pc = "save_kickoff_outpoints_and_amounts"]
    /\ UNCHANGED <<deposit_infos, nonces, kickoffs, nonce_ctr, uses, last, burn_call>>

\* self.db.save_kickoff_outpoints_and_amounts(...).await? and Ok(vec![])
OkgSaveKickoffs(c) ==
    /\ okg_calls[c].pc = "save_kickoff_outpoints_and_amounts"
    /\ kickoffs' = [kickoffs EXCEPT ![okg_calls[c].d] =
                       Some(kickoff_outpoints_and_amounts(okg_calls[c].req.kickoff_utxos))]
    /\ okg_calls' = [okg_calls EXCEPT ![c].pc = "done", ![c].res = Ok(<<>>)]
    /\ UNCHANGED <<deposit_infos, nonces, agg_nonces, nonce_ctr, uses, last, burn_call>>

\* one of the two saves fails, or the caller drops the call while it is suspended at
\* it: the call ends there and what it has written stays
OkgStoreFailure(c) ==
    /\ okg_calls[c].pc \in {"save_agg_nonces", "save_kickoff_outpoints_and_amounts"}
    /\ okg_calls' = [okg_calls EXCEPT ![c].res = Err("DatabaseError"), ![c].pc = "failed"]
    /\ UNCHANGED <<deposit_infos, nonces, agg_nonces, kickoffs, nonce_ctr, uses, last,
                   burn_call>>

\* burn_txs_signed_rpc up to its first await
BurnCall(d) ==
    /\ burn_call.pc = "idle"
    /\ burn_call' = [BurnIdle EXCEPT !.pc = "get_kickoff_outpoints_and_amounts", !.d = d]
    /\ UNCHANGED <<deposit_infos, nonces, agg_nonces, kickoffs, nonce_ctr, uses, last,
                   okg_calls>>

\* the end of burn_txs_signed_rpc once every get_nonces has answered: ok_or(NoncesNotFound)
\* on each answer, then one partial signature per kickoff read at the start
BurnSign(d, ks, ns) ==
    LET sigs == [i \in 1..Len(ks) |->
                    partial_sign(Unwrap(ns[i])[3], SignerKey, Unwrap(ns[i])[2],
                                 OperatorTakeSighash(d, ks[i]))]
    IN  IF \E i \in 1..Len(ks) : ~IsSome(ns[i])
        THEN /\ burn_call' = [burn_call EXCEPT !.pc = "done", !.ns = ns,
                                               !.res = Err("NoncesNotFound")]
             /\ UNCHANGED uses
        ELSE /\ burn_call' = [burn_call EXCEPT !.pc = "done", !.ns = ns, !.res = Ok(sigs)]
             /\ uses' = uses \cup {[sec |-> sigs[i].sec, msg |-> sigs[i].msg] :
                                      i \in 1..Len(ks)}

\* self.db.get_kickoff_outpoints_and_amounts(deposit_utxo).await? and
\* ok_or(KickoffOutpointsNotFound); with no kickoff there is no get_nonces to wait for
BurnGetKickoffs ==
    /\ burn_call.pc = "get_kickoff_outpoints_and_amounts"
    /\ LET ko == get_kickoff_outpoints_and_amounts(burn_call.d)
       IN  IF ~IsSome(ko)
           THEN /\ burn_call' = [burn_call EXCEPT !.pc = "done",
                                                  !.res = Err("KickoffOutpointsNotFound")]
                /\ UNCHANGED uses
           ELSE IF Unwrap(ko) = <<>>
           THEN /\ burn_call' = [burn_call EXCEPT !.pc = "done", !.res = Ok(<<>>)]
                /\ UNCHANGED uses
           ELSE /\ burn_call' = [burn_call EXCEPT !.pc = "get_nonces", !.ks = Unwrap(ko)]
                /\ UNCHANGED uses
    /\ UNCHANGED <<deposit_infos, nonces, agg_nonces, kickoffs, nonce_ctr, last, okg_calls>>

\* one of the futures self.db.get_nonces(&deposit_utxo, i + 2) joined by try_join_all
\* answers (in the order of i); after the last answer the call runs to its end
BurnGetNonces ==
    /\ burn_call.pc = "get_nonces"
    /\ LET i == Len(burn_call.ns)
           ns == Append(burn_call.ns, get_nonces(burn_call.d, i + 2))
       IN  IF Len(ns) < Len(burn_call.ks)
           THEN /\ burn_call' = [burn_call EXCEPT !.ns = ns]
                /\ UNCHANGED uses
           ELSE BurnSign(burn_call.d, burn_call.ks, ns)
    /\ UNCHANGED <<deposit_infos, nonces, agg_nonces, kickoffs, nonce_ctr, last, okg_calls>>

\* a store call of burn_txs_signed_rpc fails or the call is dropped while suspended
BurnStoreFailure ==
    /\ burn_call.pc \in {"get_kickoff_outpoints_and_amounts", "get_nonces"}
    /\ burn_call' = [burn_call EXCEPT !.pc = "done", !.res = Err("DatabaseError")]
    /\ UNCHANGED <<deposit_infos, nonces, agg_nonces, kickoffs, nonce_ctr, uses, last,
                   okg_calls>>

NextKickoff ==
    \/ \E d \in SeqDeposits, rec \in SeqRecovery, evm \in EvmAddresses :
          /\ NewDeposit(d, rec, evm, TRUE)
          /\ UNCHANGED <<okg_calls, burn_call>> /\ KickoffOnly
    \/ \E c \in KickoffCalls, d \in SeqDeposits : \E req \in KickoffRequests(d) :
          OkgCall(c, d, req) /\ KickoffOnly
    \/ \E c \in KickoffCalls : OkgSaveAggNonces(c) /\ KickoffOnly
    \/ \E c \in KickoffCalls : OkgSaveKickoffs(c) /\ KickoffOnly
    \/ \E c \in KickoffCalls : OkgStoreFailure(c) /\ KickoffOnly
    \/ \E d \in SeqDeposits : BurnCall(d) /\ KickoffOnly
    \/ BurnGetKickoffs /\ KickoffOnly
    \/ BurnGetNonces /\ KickoffOnly
    \/ BurnStoreFailure /\ KickoffOnly

SpecKickoff == Init /\ [][NextKickoff]_vars

\* the call in slot c has passed the validation, so it writes or has written
PassedValidation(c) ==
    /\ okg_calls[c].pc # "idle"
    /\ okg_calls[c].pc = "done" => okg_calls[c].res.ok

\* C16 (as claimed): once no operator_kickoffs_generated call is between its start and
\* its end, the aggregated nonces and the kickoff outpoints and amounts stored for a
\* deposit are both absent or both those of one call, also after a call failed or was
\* dropped between the two writes.
C16_KickoffWritesAtomic ==
    (\A c \in KickoffCalls : okg_calls[c].pc \in {"idle", "done", "failed"}) =>
        \A d \in Deposits :
            \/ agg_nonces[d] = None /\ kickoffs[d] = None
            \/ \E c \in KickoffCalls :
                  /\ PassedValidation(c) /\ okg_calls[c].d = d
                  /\ agg_nonces[d] = Some(okg_calls[c].req.agg_nonces)
                  /\ kickoffs[d] =
                        Some(kickoff_outpoints_and_amounts(okg_calls[c].req.kickoff_utxos))

\* C17 (as claimed): a burn_txs_signed call that returns signatures has signed the
\* kickoffs of one registration with the aggregated nonces of the same registration:
\* the kickoff set it read and the aggregated nonce in each of its signatures belong
\* to one operator_kickoffs_generated call.
C17_BurnSeesOneRegistration ==
    (burn_call.pc = "done" /\ burn_call.res.ok /\ burn_call.ks # <<>>) =>
        \E c \in KickoffCalls :
            /\ PassedValidation(c) /\ okg_calls[c].d = burn_call.d
            /\ burn_call.ks = kickoff_outpoints_and_amounts(okg_calls[c].req.kickoff_utxos)
            /\ \A i \in 1..Len(burn_call.ks) :
                  /\ i + 2 <= Len(okg_calls[c].req.agg_nonces)
                  /\ burn_call.res.val[i].agg = okg_calls[c].req.agg_nonces[i + 2]

----------------------------------------------------------------------------
(* Withdrawal signing, from the description of new_withdrawal_direct *)

BridgeFundTxids == {"txid_X", "txid_Z"}

WithdrawalAddresses == {"addr_Y", "addr_W"}

\* the withdrawal transaction rebuilt from the bridge UTXO and the destination address
WithdrawalTx(txid, addr) ==
    create_btc_tx(create_tx_ins(<<[txid |-> txid, vout |-> 0]>>),
                  <<TxOut(BRIDGE_AMOUNT_SATS - MinRelayFee, addr)>>)

WithdrawalSig(idx, txid, addr) ==
    SchnorrSign(SignerKey, [tx |-> WithdrawalTx(txid, addr), leaf |-> "n_of_n", idx |-> idx])

WithdrawCall(idx, txid, addr, signed, res) ==
    [idx |-> idx, txid |-> txid, addr |-> addr, signed |-> signed, res |-> res]

\* new_withdrawal_direct without the comparison of the bound txid: it always signs and stores
NewWithdrawalDirectRebind(idx, txid, addr) ==
    LET sig == WithdrawalSig(idx, txid, addr)
    IN  /\ withdrawal_sigs' = [withdrawal_sigs EXCEPT ![idx] = Some([txid |-> txid, sig |-> sig])]
        /\ wlast' = WithdrawCall(idx, txid, addr, TRUE, Ok(sig))

\* new_withdrawal_direct that signs again when the stored txid matches
NewWithdrawalDirectResign(idx, txid, addr) ==
    LET existing == withdrawal_sigs[idx]
        sig == WithdrawalSig(idx, txid, addr)
    IN  IF IsSome(existing) /\ Unwrap(existing).txid # txid
        THEN /\ wlast' = WithdrawCall(idx, txid, addr, FALSE, Err("AlreadySpentWithdrawal"))
             /\ UNCHANGED withdrawal_sigs
        ELSE /\ withdrawal_sigs' =
                    [withdrawal_sigs EXCEPT ![idx] = Some([txid |-> txid, sig |-> sig])]
             /\ wlast' = WithdrawCall(idx, txid, addr, TRUE, Ok(sig))

NewWithdrawalDirect(idx, txid, addr) ==
    LET existing == withdrawal_sigs[idx]
        sig == WithdrawalSig(idx, txid, addr)
    IN  IF IsSome(existing)
        THEN /\ wlast' = WithdrawCall(idx, txid, addr, FALSE,
                                      IF Unwrap(existing).txid = txid
                                      THEN Ok(Unwrap(existing).sig)
                                      ELSE Err("AlreadySpentWithdrawal"))
             /\ UNCHANGED withdrawal_sigs
        ELSE /\ withdrawal_sigs' =
                    [withdrawal_sigs EXCEPT ![idx] = Some([txid |-> txid, sig |-> sig])]
             /\ wlast' = WithdrawCall(idx, txid, addr, TRUE, Ok(sig))

WithdrawOnly ==
    UNCHANGED <<deposit_infos, nonces, agg_nonces, kickoffs, nonce_ctr, uses, last,
                ctor, procs, okg_calls, burn_call, tree, tap, database, codec>>

NextWithdraw ==
    \E idx \in WithdrawalIdxs, txid \in BridgeFundTxids, addr \in WithdrawalAddresses :
        NewWithdrawalDirect(idx, txid, addr) /\ WithdrawOnly

SpecWithdraw == Init /\ [][NextWithdraw]_vars

\* C4: once an index holds a signature bound to a txid, a call for that index with a
\* different txid returns AlreadySpentWithdrawal, and no call changes a stored binding.
C4_DoubleClaimRejected ==
    [][\A i \in WithdrawalIdxs :
          IsSome(withdrawal_sigs[i]) =>
              /\ withdrawal_sigs'[i] = withdrawal_sigs[i]
              /\ (wlast' # wlast /\ wlast'.idx = i
                  /\ wlast'.txid # Unwrap(withdrawal_sigs[i]).txid)
                     => wlast'.res = Err("AlreadySpentWithdrawal")]_vars

C4_Witness ==
    /\ wlast.res = Err("AlreadySpentWithdrawal")
    /\ IsSome(withdrawal_sigs[wlast.idx])
    /\ Unwrap(withdrawal_sigs[wlast.idx]).txid # wlast.txid

\* C5: a call for an index with the txid the index is bound to returns the stored
\* signature, the one the first call returned, and leaves every stored signature as it was.
C5_SameTxidSameSignature ==
    [][\A i \in WithdrawalIdxs :
          (/\ IsSome(withdrawal_sigs[i])
           /\ wlast' # wlast /\ wlast'.idx = i
           /\ wlast'.txid = Unwrap(withdrawal_sigs[i]).txid)
             => /\ wlast'.res = Ok(Unwrap(withdrawal_sigs[i]).sig)
                /\ withdrawal_sigs' = withdrawal_sigs]_vars

C5_Witness ==
    /\ wlast.res.ok /\ ~wlast.signed
    /\ IsSome(withdrawal_sigs[wlast.idx])
    /\ wlast.res.val = Unwrap(withdrawal_sigs[wlast.idx]).sig
    /\ wlast.addr # Unwrap(withdrawal_sigs[wlast.idx]).sig.msg.tx.output[1].script_pubkey

----------------------------------------------------------------------------
(* The connector tree of create_connector_binary_tree, one step per node transaction *)

\* value of a UTXO that funds a tree of the given depth: 2^depth * dust + (2^depth-1) * fee
calculate_amount(depth, dust, fee) == dust * 2^depth + fee * (2^depth - 1)

create_tx_ins_with_sequence(utxos) ==
    [i \in 1..Len(utxos) |-> [previous_output |-> utxos[i],
                              sequence |-> "CONNECTOR_TREE_OPERATOR_TAKES_AFTER"]]

create_tx_outs(pairs) == [i \in 1..Len(pairs) |-> TxOut(pairs[i][1], pairs[i][2])]

\* connector_tree_hashes[level][idx], supplied by the caller
ConnectorTreeHash(level, idx) == [hash_at |-> <<level, idx>>]

create_connector_tree_node_address(hash) ==
    [taproot_of |-> <<"timelock_script", [preimage_script_of |-> hash]>>]

\* a node transaction whose second output carries only the dust value
create_connector_tree_tx_dust_second(utxo, depth, first_address, second_address, dust, fee) ==
    create_btc_tx(create_tx_ins_with_sequence(<<utxo>>),
                  create_tx_outs(<<<<calculate_amount(depth, dust, fee), first_address>>,
                                   <<dust, second_address>>>>))

\* dust and fee stand for DUST_VALUE and MIN_RELAY_FEE
create_connector_tree_tx(utxo, depth, first_address, second_address, dust, fee) ==
    create_btc_tx(create_tx_ins_with_sequence(<<utxo>>),
                  create_tx_outs(<<<<calculate_amount(depth, dust, fee), first_address>>,
                                   <<calculate_amount(depth, dust, fee), second_address>>>>))

RootUtxo == [txid |-> [txid_of |-> "root_funding_tx"], vout |-> 0]

\* the depth handed to a node transaction of level i with the level subtracted once too few
ChildDepthSameLevel(depth, i) == depth - i

\* depth - i - 1, the depth handed to create_connector_tree_tx for a node of level i
ChildDepth(depth, i) == depth - i - 1

\* create_connector_binary_tree up to the level loop
CreateConnectorBinaryTree(depth, dust, fee) ==
    /\ tree.pc = "idle"
    /\ tree' = [pc |-> IF depth = 0 THEN "done" ELSE "level",
                depth |-> depth, dust |-> dust, fee |-> fee,
                total_amount |-> calculate_amount(depth, dust, fee),
                i |-> 0, j |-> 0, utxo_binary_tree |-> <<<<RootUtxo>>>>,
                utxo_tree_current_level |-> <<>>, txs |-> <<>>]

\* the iteration with the level loop ending one level early
ConnectorTreeNodeOneLevelLess ==
    /\ tree.pc = "level"
    /\ LET i == tree.i
           j == tree.j
           utxo_tree_previous_level == tree.utxo_binary_tree[Len(tree.utxo_binary_tree)]
           utxo == utxo_tree_previous_level[j + 1]
           first_address ==
               create_connector_tree_node_address(ConnectorTreeHash(i + 1, 2 * j))
           second_address ==
               create_connector_tree_node_address(ConnectorTreeHash(i + 1, 2 * j + 1))
           tx == create_connector_tree_tx(utxo, ChildDepth(tree.depth, i), first_address,
                                          second_address, tree.dust, tree.fee)
           txid == Txid(tx)
           level == tree.utxo_tree_current_level
                        \o <<[txid |-> txid, vout |-> 0], [txid |-> txid, vout |-> 1]>>
           built == Append(tree.txs, [level |-> i, utxo |-> utxo, tx |-> tx])
       IN  tree' = IF j + 1 < Len(utxo_tree_previous_level)
                   THEN [tree EXCEPT !.j = j + 1, !.utxo_tree_current_level = level,
                                     !.txs = built]
                   ELSE [tree EXCEPT !.i = i + 1, !.j = 0,
                                     !.utxo_binary_tree = Append(@, level),
                                     !.utxo_tree_current_level = <<>>,
                                     !.txs = built,
                                     !.pc = IF i + 2 < tree.depth THEN "level" ELSE "done"]

\* the iteration taking the hash entries j and j + 1 of the next level
ConnectorTreeNodeHashAtJ ==
    /\ tree.pc = "level"
    /\ LET i == tree.i
           j == tree.j
           utxo_tree_previous_level == tree.utxo_binary_tree[Len(tree.utxo_binary_tree)]
           utxo == utxo_tree_previous_level[j + 1]
           first_address ==
               create_connector_tree_node_address(ConnectorTreeHash(i + 1, j))
           second_address ==
               create_connector_tree_node_address(ConnectorTreeHash(i + 1, j + 1))
           tx == create_connector_tree_tx(utxo, ChildDepth(tree.depth, i), first_address,
                                          second_address, tree.dust, tree.fee)
           txid == Txid(tx)
           level == tree.utxo_tree_current_level
                        \o <<[txid |-> txid, vout |-> 0], [txid |-> txid, vout |-> 1]>>
           built == Append(tree.txs, [level |-> i, utxo |-> utxo, tx |-> tx])
       IN  tree' = IF j + 1 < Len(utxo_tree_previous_level)
                   THEN [tree EXCEPT !.j = j + 1, !.utxo_tree_current_level = level,
                                     !.txs = built]
                   ELSE [tree EXCEPT !.i = i + 1, !.j = 0,
                                     !.utxo_binary_tree = Append(@, level),
                                     !.utxo_tree_current_level = <<>>,
                                     !.txs = built,
                                     !.pc = IF i + 1 < tree.depth THEN "level" ELSE "done"]

\* one iteration of the inner loop; the last one of a level also pushes the level
ConnectorTreeNode ==
    /\ tree.pc = "level"
    /\ LET i == tree.i
           j == tree.j
           utxo_tree_previous_level == tree.utxo_binary_tree[Len(tree.utxo_binary_tree)]
           utxo == utxo_tree_previous_level[j + 1]
           first_address ==
               create_connector_tree_node_address(ConnectorTreeHash(i + 1, 2 * j))
           second_address ==
               create_connector_tree_node_address(ConnectorTreeHash(i + 1, 2 * j + 1))
           tx == create_connector_tree_tx(utxo, ChildDepth(tree.depth, i), first_address,
                                          second_address, tree.dust, tree.fee)
           txid == Txid(tx)
           level == tree.utxo_tree_current_level
                        \o <<[txid |-> txid, vout |-> 0], [txid |-> txid, vout |-> 1]>>
           built == Append(tree.txs, [level |-> i, utxo |-> utxo, tx |-> tx])
       IN  tree' = IF j + 1 < Len(utxo_tree_previous_level)
                   THEN [tree EXCEPT !.j = j + 1, !.utxo_tree_current_level = level,
                                     !.txs = built]
                   ELSE [tree EXCEPT !.i = i + 1, !.j = 0,
                                     !.utxo_binary_tree = Append(@, level),
                                     !.utxo_tree_current_level = <<>>,
                                     !.txs = built,
                                     !.pc = IF i + 1 < tree.depth THEN "level" ELSE "done"]

TreeOnly ==
    UNCHANGED <<deposit_infos, nonces, agg_nonces, kickoffs, nonce_ctr, uses, last,
                ctor, procs, okg_calls, burn_call, withdrawal_sigs, wlast, tap,
                database, codec>>

NextTree ==
    \/ \E depth \in 0..MaxDepth, dust \in 1..MaxDust, fee \in 0..MaxFee :
          CreateConnectorBinaryTree(depth, dust, fee) /\ TreeOnly
    \/ ConnectorTreeNode /\ TreeOnly

SpecTree == Init /\ [][NextTree]_vars

RECURSIVE SumSeq(_)
SumSeq(q) ==
    IF q = <<>> THEN 0 ELSE q[1] + SumSeq(Tail(q))

\* value of a UTXO of the tree at a level, the root holding root_value
UtxoValue(level, utxo, root_value) ==
    IF level = 0 THEN root_value ELSE utxo.txid.txid_of.output[utxo.vout + 1].value

OutputSum(tx) == SumSeq([o \in 1..Len(tx.output) |-> tx.output[o].value])

\* C8: for a finished tree of depth d whose root holds V = dust*2^d + fee*(2^d - 1), the
\* leaves sum to dust*2^d, there are 2^d - 1 node transactions, their fees sum to
\* fee*(2^d - 1), and leaves plus fees equal V.
C8_TreeValueConservation ==
    tree.pc = "done" =>
        LET d == tree.depth
            V == tree.dust * 2^d + tree.fee * (2^d - 1)
            leaves == tree.utxo_binary_tree[d + 1]
            leaf_sum == SumSeq([l \in 1..Len(leaves) |-> UtxoValue(d, leaves[l], V)])
            fee_sum == SumSeq([t \in 1..Len(tree.txs) |->
                                  UtxoValue(tree.txs[t].level, tree.txs[t].utxo, V)
                                      - OutputSum(tree.txs[t].tx)])
        IN  /\ Len(leaves) = 2^d
            /\ leaf_sum = tree.dust * 2^d
            /\ Len(tree.txs) = 2^d - 1
            /\ fee_sum = tree.fee * (2^d - 1)
            /\ leaf_sum + fee_sum = V

C8_Witness ==
    /\ tree.pc = "done" /\ tree.depth >= 2 /\ tree.fee > 0
    /\ Len(tree.txs) = 2^tree.depth - 1

\* C9: every node transaction of level i has two outputs of calculate_amount(depth-i-1)
\* each, the outputs plus one fee equal the value of the UTXO it spends, which is
\* calculate_amount(depth-i), and the outputs of the last level are the dust value.
C9_NodeSplitsParentExactly ==
    \A t \in 1..Len(tree.txs) :
        LET node == tree.txs[t]
            i == node.level
            d == tree.depth
            parent == UtxoValue(i, node.utxo, tree.total_amount)
            outs == node.tx.output
        IN  /\ i >= 0 /\ i < d
            /\ Len(outs) = 2
            /\ \A o \in 1..2 : outs[o].value = calculate_amount(d - i - 1, tree.dust, tree.fee)
            /\ parent = calculate_amount(d - i, tree.dust, tree.fee)
            /\ outs[1].value + outs[2].value + tree.fee = parent
            /\ (i = d - 1 => \A o \in 1..2 : outs[o].value = tree.dust)

C9_Witness ==
    /\ tree.pc = "done" /\ tree.depth >= 2 /\ tree.fee > 0
    /\ \E t \in 1..Len(tree.txs) : tree.txs[t].level = tree.depth - 1

\* script_pubkeys of all outputs of the node transactions built so far
NodeAddresses ==
    {<<t, b>> \in (1..Len(tree.txs)) \X {1, 2} : TRUE}

\* C30: the finished tree has depth + 1 levels, level i holding 2^i outpoints (the root
\* alone for depth 0); the outpoints 2j and 2j + 1 of level i + 1 are the outputs 0 and
\* 1 of the transaction that spends outpoint j of level i, and output b of it pays to
\* the address of hash entry [i + 1][2j + b]; no two outputs pay to the same address.
C30_TreeShape ==
    tree.pc = "done" =>
        LET T == tree.utxo_binary_tree
            d == tree.depth
        IN  /\ Len(T) = d + 1
            /\ T[1] = <<RootUtxo>>
            /\ \A i \in 0..d : Len(T[i + 1]) = 2^i
            /\ Len(tree.txs) = 2^d - 1
            /\ \A i \in 0..(d - 1) : \A j \in 0..(2^i - 1) :
                  LET node == tree.txs[2^i + j]
                  IN  /\ node.level = i
                      /\ node.tx.input = create_tx_ins_with_sequence(<<T[i + 1][j + 1]>>)
                      /\ \A b \in {0, 1} :
                            /\ T[i + 2][2 * j + b + 1] = [txid |-> Txid(node.tx), vout |-> b]
                            /\ node.tx.output[b + 1].script_pubkey =
                                  create_connector_tree_node_address(
                                      ConnectorTreeHash(i + 1, 2 * j + b))
            /\ \A n1, n2 \in NodeAddresses :
                  tree.txs[n1[1]].tx.output[n1[2]].script_pubkey
                      = tree.txs[n2[1]].tx.output[n2[2]].script_pubkey => n1 = n2

\* C30 witness: a finished tree of depth 2 whose last level holds four outpoints, the
\* last of them output 1 of the transaction spending the second outpoint of level 1
C30_Witness ==
    /\ tree.pc = "done" /\ tree.depth = 2
    /\ Len(tree.utxo_binary_tree[3]) = 4
    /\ tree.utxo_binary_tree[3][4] = [txid |-> Txid(tree.txs[3].tx), vout |-> 1]
    /\ tree.txs[3].utxo = tree.utxo_binary_tree[2][2]

----------------------------------------------------------------------------
(* create_taproot_address, one step per leaf handed to the TaprootBuilder *)

RECURSIVE ilog2(_)
ilog2(x) ==
    IF x <= 1 THEN 0 ELSE 1 + ilog2(x \div 2)

\* the depth computed from ilog2 of n instead of n - 1
TaprootDepthOfN(n) == ilog2(n) + 1

\* let m: u8 = ((n - 1).ilog2() + 1) as u8
TaprootDepth(n) == (ilog2(n - 1) + 1) % 256

\* the shallow depth given from index n - k + 1 on, one leaf late
LeafDepthAfterBoundary(m, n, k, i) == m - (IF i > n - k THEN 1 ELSE 0)

\* m - ((i >= n - k) as u8)
LeafDepth(m, n, k, i) == m - (IF i >= n - k THEN 1 ELSE 0)

\* TaprootBuilder::add_leaf: the leaf is merged with finished siblings in DFS order
RECURSIVE TaprootInsert(_, _, _)
TaprootInsert(branch, node, depth) ==
    IF Len(branch) = depth + 1
    THEN LET top == branch[Len(branch)]
         IN  IF ~IsSome(top)
             THEN Ok([branch EXCEPT ![depth + 1] = Some(node)])
             ELSE IF depth = 0
                  THEN Err("OverCompleteTree")
                  ELSE TaprootInsert(SubSeq(branch, 1, Len(branch) - 1),
                                     Unwrap(top) \o node, depth - 1)
    ELSE Ok([d \in 1..(depth + 1) |->
                IF d = depth + 1 THEN Some(node)
                ELSE IF d <= Len(branch) THEN branch[d] ELSE None])

add_leaf(branch, depth, leaf) ==
    IF Len(branch) > depth + 1
    THEN Err("NodeNotInDfsOrder")
    ELSE TaprootInsert(branch, <<leaf>>, depth)

\* create_taproot_address that hands a single leaf to the general branch of depth 1
CreateTaprootAddressSingleAtOne(n) ==
    /\ tap.pc = "idle"
    /\ tap' = IF n = 0
              THEN [tap EXCEPT !.pc = "done", !.res = Err("InvalidPeriod")]
              ELSE IF n > 1
              THEN LET m == TaprootDepth(n)
                   IN  [tap EXCEPT !.pc = "fold", !.n = n, !.m = m, !.k = 2^m - n]
              ELSE LET added == add_leaf(<<>>, 1, 0)
                   IN  IF added.ok
                       THEN [tap EXCEPT !.pc = "finalize", !.n = n, !.depths = <<1>>,
                                        !.branch = added.val]
                       ELSE [tap EXCEPT !.pc = "done", !.n = n, !.res = Panic]

\* create_taproot_address up to the fold: the empty list is refused, a single leaf is
\* added at depth 0
CreateTaprootAddress(n) ==
    /\ tap.pc = "idle"
    /\ tap' = IF n = 0
              THEN [tap EXCEPT !.pc = "done", !.res = Err("InvalidPeriod")]
              ELSE IF n > 1
              THEN LET m == TaprootDepth(n)
                   IN  [tap EXCEPT !.pc = "fold", !.n = n, !.m = m, !.k = 2^m - n]
              ELSE LET added == add_leaf(<<>>, 0, 0)
                   IN  IF added.ok
                       THEN [tap EXCEPT !.pc = "finalize", !.n = n, !.depths = <<0>>,
                                        !.branch = added.val]
                       ELSE [tap EXCEPT !.pc = "done", !.n = n, !.res = Panic]

\* one step of the fold over 0..n: acc.add_leaf(depth, scripts[i]).unwrap()
TaprootAddLeaf ==
    /\ tap.pc = "fold"
    /\ LET depth == LeafDepth(tap.m, tap.n, tap.k, tap.i)
           added == add_leaf(tap.branch, depth, tap.i)
       IN  tap' = IF ~added.ok
                  THEN [tap EXCEPT !.pc = "done", !.res = Panic]
                  ELSE [tap EXCEPT !.i = tap.i + 1, !.depths = Append(@, depth),
                                   !.branch = added.val,
                                   !.pc = IF tap.i + 1 < tap.n THEN "fold" ELSE "finalize"]

\* taproot_builder.finalize(&secp, internal_key).unwrap() and the address of the root
TaprootFinalize ==
    /\ tap.pc = "finalize"
    /\ tap' = IF Len(tap.branch) = 1 /\ IsSome(tap.branch[1])
              THEN [tap EXCEPT !.pc = "done",
                               !.res = Ok([merkle_root_of |-> Unwrap(tap.branch[1]),
                                           depths |-> tap.depths])]
              ELSE [tap EXCEPT !.pc = "done", !.res = Panic]

TaprootOnly ==
    UNCHANGED <<deposit_infos, nonces, agg_nonces, kickoffs, nonce_ctr, uses, last,
                ctor, procs, okg_calls, burn_call, withdrawal_sigs, wlast, tree,
                database, codec>>

NextTaproot ==
    \/ \E n \in 0..MaxLeaves : CreateTaprootAddress(n) /\ TaprootOnly
    \/ TaprootAddLeaf /\ TaprootOnly
    \/ TaprootFinalize /\ TaprootOnly

SpecTaproot == Init /\ [][NextTaproot]_vars

\* the least m with 2^m >= n
CeilLog2(n) == CHOOSE m \in 0..n : 2^m >= n /\ \A e \in 0..(m - 1) : 2^e < n

CountDepth(depths, v) == Cardinality({l \in 1..Len(depths) : depths[l] = v})

\* C10: for n >= 1 leaves the call returns an address whose n leaf depths are m-1 for
\* k leaves and m for the other n-k, with m = ceil(log2 n) and k = 2^m - n, and for
\* n > 1 the m the code computes is ceil(log2 n).
C10_LeafDepthMultiset ==
    /\ (tap.pc # "idle" /\ tap.n > 1) => tap.m = CeilLog2(tap.n)
    /\ (tap.pc = "done" /\ tap.n >= 1) =>
           LET m == CeilLog2(tap.n)
               k == 2^m - tap.n
           IN  /\ tap.res.ok
               /\ Len(tap.depths) = tap.n
               /\ CountDepth(tap.depths, m - 1) = k
               /\ CountDepth(tap.depths, m) = tap.n - k

C10_Witness ==
    /\ tap.pc = "done" /\ tap.res.ok /\ tap.n >= 5
    /\ \E a, b \in 1..Len(tap.depths) : tap.depths[a] # tap.depths[b]

\* C11 (as claimed): of n > 1 leaves the first k = 2^m - n, those of index 0..k-1, are
\* handed to the builder at depth m-1 and every other leaf at depth m.
C11_FirstLeavesShallow ==
    (tap.pc = "done" /\ tap.res.ok /\ tap.n > 1) =>
        LET m == CeilLog2(tap.n)
            k == 2^m - tap.n
        IN  \A i \in 0..(tap.n - 1) :
                tap.depths[i + 1] = IF i < k THEN m - 1 ELSE m

\* C12: a call with no leaf returns InvalidPeriod and has handed nothing to a builder,
\* and a call with one leaf returns the tree of that leaf alone, at depth 0.
C12_EmptyAndSingleLeaf ==
    /\ (tap.pc = "done" /\ tap.n = 0) =>
           /\ tap.res = Err("InvalidPeriod")
           /\ tap.depths = <<>> /\ tap.branch = <<>>
    /\ (tap.pc = "done" /\ tap.n = 1) =>
           /\ tap.res.ok
           /\ tap.depths = <<0>>
           /\ tap.res.val.merkle_root_of = <<0>>

C12_Witness ==
    /\ tap.pc = "done" /\ tap.n = 1 /\ tap.res.ok
    /\ tap.res.val.depths = <<0>>

\* the sum over the leaves of 2^(-depth), scaled by 2^m
KraftSum(depths, m) == SumSeq([l \in 1..Len(depths) |-> 2^(m - depths[l])])

\* C31: for n >= 1 leaves no add_leaf and no finalize panics; the depths handed to the
\* builder have the sum of 2^(-depth) equal to 1, none is deeper than ceil(log2 n) and
\* one is that deep, and they arrive in a depth-first order the builder accepts, so all
\* leaves have merged into one root when finalize runs and the call returns an address.
C31_CompleteTreeOfLeaves ==
    /\ tap.res # Panic
    /\ (tap.pc \in {"finalize", "done"} /\ tap.n >= 1) =>
           LET m == CeilLog2(tap.n)
           IN  /\ Len(tap.depths) = tap.n
               /\ \A l \in 1..tap.n : tap.depths[l] <= m
               /\ \E l \in 1..tap.n : tap.depths[l] = m
               /\ KraftSum(tap.depths, m) = 2^m
               /\ Len(tap.branch) = 1 /\ IsSome(tap.branch[1])
    /\ (tap.pc = "done" /\ tap.n >= 1) =>
           /\ tap.res.ok
           /\ Len(tap.res.val.merkle_root_of) = tap.n

\* C31 witness: five leaves, two at depth 3 and three at depth 2, finalized
C31_Witness ==
    /\ tap.pc = "done" /\ tap.n = 5 /\ tap.res.ok
    /\ tap.depths = <<3, 3, 2, 2, 2>>
    /\ KraftSum(tap.depths, 3) = 8

----------------------------------------------------------------------------
(* Verifier::new *)

\* secret keys a configuration may hold: two keys and the negation of the first
SecretKeys == {"s1", "s1_negated", "s2"}

\* config.secret_key.public_key(&secp): the point, as its x coordinate and its parity
public_key(sk) ==
    [x |-> IF sk = "s2" THEN "x2" ELSE "x1", odd |-> sk = "s1_negated"]

\* XOnlyPublicKey::from(pk): the x coordinate alone
XOnlyPublicKeyFrom(pk) == pk.x

\* x-only keys a configured list may hold: those of the secret keys and a third one
XOnlyKeys == {"x1", "x2", "x3"}

VerifierKeyLists == UNION {[1..n -> XOnlyKeys] : n \in 0..MaxVerifierKeys}

NewOnly ==
    UNCHANGED <<deposit_infos, nonces, agg_nonces, kickoffs, nonce_ctr, uses, last,
                procs, okg_calls, burn_call, withdrawal_sigs, wlast, tree, tap,
                database, codec>>

\* Verifier::new comparing the derived key with the first configured key only
VerifierNewFirstKeyOnly(sk, pks) ==
    /\ ctor.pc = "idle"
    /\ LET xonly_pk == XOnlyPublicKeyFrom(public_key(sk))
           found == pks # <<>> /\ pks[1] = xonly_pk
       IN  ctor' = [pc |-> IF found THEN "VerifierDB::new" ELSE "done",
                    secret_key |-> sk, verifiers_public_keys |-> pks, db |-> FALSE,
                    res |-> IF found THEN Ok(<<>>) ELSE Err("PublicKeyNotFound")]

\* Verifier::new up to its await: the signer, the derived x-only key and the lookup
\* config.verifiers_public_keys.contains(&xonly_pk)
VerifierNew(sk, pks) ==
    /\ ctor.pc = "idle"
    /\ LET xonly_pk == XOnlyPublicKeyFrom(public_key(sk))
           found == xonly_pk \in Range(pks)
       IN  ctor' = [pc |-> IF found THEN "VerifierDB::new" ELSE "done",
                    secret_key |-> sk, verifiers_public_keys |-> pks, db |-> FALSE,
                    res |-> IF found THEN Ok(<<>>) ELSE Err("PublicKeyNotFound")]

\* VerifierDB::new(config.clone()).await, the transaction builder and Ok(Verifier {..})
VerifierNewDb ==
    /\ ctor.pc = "VerifierDB::new"
    /\ ctor' = [ctor EXCEPT !.pc = "done", !.db = TRUE,
                            !.res = Ok([signer |-> ctor.secret_key,
                                        transaction_builder |-> ctor.verifiers_public_keys])]

NextNew ==
    \/ \E sk \in SecretKeys, pks \in VerifierKeyLists : VerifierNew(sk, pks) /\ NewOnly
    \/ VerifierNewDb /\ NewOnly

SpecNew == Init /\ [][NextNew]_vars

\* C28: Verifier::new ends with PublicKeyNotFound, without a verifier and without the
\* database having been set up, when no entry of the configured key list is the x-only
\* public key of the configured secret key; when some entry is, it does not end with
\* PublicKeyNotFound and returns the verifier once the database is set up.
C28_PublicKeyNotFound ==
    ctor.pc # "idle" =>
        LET listed == \E i \in 1..Len(ctor.verifiers_public_keys) :
                         ctor.verifiers_public_keys[i] = public_key(ctor.secret_key).x
        IN  /\ ~listed => (/\ ctor.pc = "done" /\ ctor.res = Err("PublicKeyNotFound")
                           /\ ~ctor.db)
            /\ listed => /\ ctor.res # Err("PublicKeyNotFound")
                         /\ ctor.pc = "done" => (ctor.res.ok /\ ctor.db)

\* C28 witness: a construction refused although the list holds other keys, the key of
\* another secret key among them
C28_Witness ==
    /\ ctor.pc = "done" /\ ctor.res = Err("PublicKeyNotFound") /\ ~ctor.db
    /\ ctor.secret_key = "s2"
    /\ Len(ctor.verifiers_public_keys) = 2 /\ ctor.verifiers_public_keys[2] = "x1"

----------------------------------------------------------------------------
(* Calls on two deposits in any order *)

\* requests with one kickoff and the full list of aggregated nonces
TwoDepositRequests(d) ==
    {r \in KickoffRequests(d) : Len(r.kickoff_utxos) = 1 /\ r.agg_nonces = DefaultAgg}

NextTwoDeposits ==
    \/ \E d \in Deposits, rec \in SeqRecovery, evm \in EvmAddresses, chk \in BOOLEAN :
          NewDeposit(d, rec, evm, chk) /\ VerifierOnly
    \/ \E d \in Deposits : \E req \in TwoDepositRequests(d) :
          OperatorKickoffsGenerated(d, req) /\ VerifierOnly
    \/ \E d \in Deposits : BurnTxsSigned(d) /\ VerifierOnly
    \/ \E d \in Deposits : \E sigs \in TakeSigLists(d) :
          OperatorTakeTxsSigned(d, sigs) /\ VerifierOnly

SpecTwoDeposits == Init /\ [][NextTwoDeposits]_vars

\* the secret nonces of deposit d that were handed to partial_sign, with their digests
SignedFor(d) ==
    {u \in uses : IsSome(nonces[d]) /\ \E k \in 1..Len(Unwrap(nonces[d])) :
                     u.sec = Unwrap(nonces[d])[k].sec}

\* C26: a call on one deposit leaves the stored metadata, nonces, aggregated nonces,
\* kickoffs and signed nonces of every other deposit as they were, in whatever order
\* the calls on the two deposits are made.
C26_OtherDepositUntouched ==
    [][\A e \in Deposits :
          last'.d # e =>
              /\ deposit_infos'[e] = deposit_infos[e]
              /\ nonces'[e] = nonces[e]
              /\ agg_nonces'[e] = agg_nonces[e]
              /\ kickoffs'[e] = kickoffs[e]
              /\ SignedFor(e)' = SignedFor(e)]_vars

\* C26 witness: both deposits have gone through new_deposit, a registration and a
\* signing, with different kickoffs registered, and the last call was on D1
C26_Witness ==
    /\ \A d \in Deposits :
          IsSome(deposit_infos[d]) /\ IsSome(agg_nonces[d]) /\ IsSome(kickoffs[d])
          /\ SignedFor(d) # {}
    /\ kickoffs["D1"] # kickoffs["D2"]
    /\ last.d = "D1" /\ last.op = "operator_kickoffs_generated" /\ last.res.ok

----------------------------------------------------------------------------
(* Progress of the loops: the connector tree builder and a burn_txs_signed call, with *)
(* registrations made while the call is suspended                                    *)

\* registrations that pass the validation
AcceptedRequests(d) ==
    {r \in KickoffRequests(d) : KickoffValidation(d, r) = "" /\ r.agg_nonces = DefaultAgg}

NextLive ==
    \/ \E depth \in 0..MaxDepth : CreateConnectorBinaryTree(depth, MaxDust, MaxFee) /\ TreeOnly
    \/ ConnectorTreeNode /\ TreeOnly
    \/ \E d \in SeqDeposits, rec \in SeqRecovery, evm \in EvmAddresses :
          NewDeposit(d, rec, evm, TRUE) /\ VerifierOnly
    \/ \E d \in SeqDeposits : \E req \in AcceptedRequests(d) :
          OperatorKickoffsGenerated(d, req) /\ VerifierOnly
    \/ \E d \in SeqDeposits : BurnCall(d) /\ KickoffOnly
    \/ BurnGetKickoffs /\ KickoffOnly
    \/ BurnGetNonces /\ KickoffOnly
    \/ BurnStoreFailure /\ KickoffOnly

\* the builder runs its loops on, and the store answers the calls of burn_txs_signed
SpecLive ==
    /\ Init /\ [][NextLive]_vars
    /\ WF_vars(ConnectorTreeNode /\ TreeOnly)
    /\ WF_vars(BurnGetKickoffs /\ KickoffOnly)
    /\ WF_vars(BurnGetNonces /\ KickoffOnly)

----------------------------------------------------------------------------
(* Database (db/common.rs): every add and set locks the mutex, reads the whole content, *)
(* changes its copy and writes it back; the gets read without the mutex                 *)

ZeroHash == "zero32"

\* slice::get(i) of a Vec
VecGet(v, i) == IF i < Len(v) THEN Some(v[i + 1]) ELSE None

\* while period >= v.len() { v.push(Vec::new()) }
PushUntil(v, period) ==
    [i \in 1..(IF period + 1 > Len(v) THEN period + 1 ELSE Len(v)) |->
        IF i <= Len(v) THEN v[i] ELSE <<>>]

\* MerkleTree::add
MerkleTreeAdd(t, hash) == [index |-> t.index + 1, leaves |-> Append(t.leaves, hash)]

\* the tree that holds the given leaves, added in order
MerkleTreeOf(leaves) == [index |-> Len(leaves), leaves |-> leaves]

add_to_inscription_txs(content, inscription_txs) ==
    [content EXCEPT !.inscription_txs = Append(@, inscription_txs)]

add_to_deposit_txs(content, deposit_tx) ==
    [content EXCEPT !.deposit_txs = Append(@, deposit_tx)]

add_to_withdrawals_merkle_tree(content, hash) ==
    [content EXCEPT !.withdrawals_merkle_tree = MerkleTreeAdd(@, hash)]

add_to_withdrawals_payment_txids(content, period, withdrawal_payment) ==
    LET padded == PushUntil(content.withdrawals_payment_txids, period)
    IN  [content EXCEPT !.withdrawals_payment_txids =
            [padded EXCEPT ![period + 1] = Append(@, withdrawal_payment)]]

set_connector_tree_hashes(content, connector_tree_hashes) ==
    [content EXCEPT !.connector_tree_hashes = connector_tree_hashes]

set_claim_proof_merkle_trees(content, claim_proof_merkle_trees) ==
    [content EXCEPT !.claim_proof_merkle_trees = claim_proof_merkle_trees]

set_start_block_height(content, start_block_height) ==
    [content EXCEPT !.start_block_height = start_block_height]

add_inscribed_preimages(content, period, preimages) ==
    LET padded == PushUntil(content.inscribed_connector_tree_preimages, period)
    IN  [content EXCEPT !.inscribed_connector_tree_preimages =
            [padded EXCEPT ![period + 1] = preimages]]

get_connector_tree_hash(content, period, level, idx) ==
    LET p == VecGet(content.connector_tree_hashes, period)
        l == IF IsSome(p) THEN VecGet(Unwrap(p), level) ELSE None
        h == IF IsSome(l) THEN VecGet(Unwrap(l), idx) ELSE None
    IN  IF IsSome(h) THEN Unwrap(h) ELSE ZeroHash

get_claim_proof_merkle_tree(content, period) ==
    LET t == VecGet(content.claim_proof_merkle_trees, period)
    IN  IF IsSome(t) THEN Unwrap(t) ELSE MerkleTreeNew

get_withdrawals_merkle_tree_index(content) == content.withdrawals_merkle_tree.index

get_start_block_height(content) == content.start_block_height

get_inscribed_preimages(content, period) ==
    LET p == VecGet(content.inscribed_connector_tree_preimages, period)
    IN  IF IsSome(p) THEN Unwrap(p) ELSE <<ZeroHash>>

\* the change a call makes to its copy of the content between read() and write()
DbApply(op, content, arg) ==
    CASE op = "add_to_inscription_txs" -> add_to_inscription_txs(content, arg[1])
      [] op = "add_to_deposit_txs" -> add_to_deposit_txs(content, arg[1])
      [] op = "add_to_withdrawals_merkle_tree" ->
            add_to_withdrawals_merkle_tree(content, arg[1])
      [] op = "add_to_withdrawals_payment_txids" ->
            add_to_withdrawals_payment_txids(content, arg[1], arg[2])
      [] op = "set_connector_tree_hashes" -> set_connector_tree_hashes(content, arg[1])
      [] op = "set_claim_proof_merkle_trees" ->
            set_claim_proof_merkle_trees(content, [i \in 1..Len(arg[1]) |->
                                                      MerkleTreeOf(arg[1][i])])
      [] op = "set_start_block_height" -> set_start_block_height(content, arg[1])
      [] op = "add_inscribed_preimages" -> add_inscribed_preimages(content, arg[1], arg[2])

DatabaseOnly ==
    UNCHANGED <<deposit_infos, nonces, agg_nonces, kickoffs, nonce_ctr, uses, last,
                ctor, procs, okg_calls, burn_call, withdrawal_sigs, wlast, tree, tap,
                codec>>

\* the add_to_* calls task p may make; the element it adds carries the task's name
AddCalls(p) ==
    {<<"add_to_inscription_txs", <<p>>>>, <<"add_to_deposit_txs", <<p>>>>,
     <<"add_to_withdrawals_merkle_tree", <<p>>>>}
    \cup {<<"add_to_withdrawals_payment_txids", <<period, p>>>> : period \in Periods}

\* an add that goes on to read() without the mutex
DbLockNotTaken(p, call) ==
    /\ database.tasks[p].pc = "idle"
    /\ database' = [database EXCEPT !.tasks[p].pc = "read",
                                    !.tasks[p].op = call[1], !.tasks[p].arg = call[2]]

\* let _guard = self.lock.lock().unwrap()
DbLock(p, call) ==
    /\ database.tasks[p].pc = "idle"
    /\ database.lock = 0
    /\ database' = [database EXCEPT !.lock = p, !.tasks[p].pc = "read",
                                    !.tasks[p].op = call[1], !.tasks[p].arg = call[2]]

\* let mut content = self.read()
DbRead(p) ==
    /\ database.tasks[p].pc = "read"
    /\ database' = [database EXCEPT !.tasks[p].pc = "write",
                                    !.tasks[p].content = database.content]

\* the change of the copy and self.write(content)
DbWrite(p) ==
    /\ database.tasks[p].pc = "write"
    /\ database' = [database EXCEPT
          !.tasks[p].pc = "return",
          !.content = DbApply(database.tasks[p].op, database.tasks[p].content,
                              database.tasks[p].arg)]

\* the call returns and _guard is dropped
DbReturn(p) ==
    /\ database.tasks[p].pc = "return"
    /\ database' = [database EXCEPT
          !.tasks[p].pc = "done",
          !.lock = IF @ = p THEN 0 ELSE @,
          !.added = Append(@, <<database.tasks[p].op, database.tasks[p].arg>>)]

NextDatabase ==
    \/ \E p \in DbTasks : \E call \in AddCalls(p) : DbLock(p, call) /\ DatabaseOnly
    \/ \E p \in DbTasks : DbRead(p) /\ DatabaseOnly
    \/ \E p \in DbTasks : DbWrite(p) /\ DatabaseOnly
    \/ \E p \in DbTasks : DbReturn(p) /\ DatabaseOnly

SpecDatabase == Init /\ [][NextDatabase]_vars

\* number of times e is in the list
Occurrences(list, e) == Cardinality({i \in 1..Len(list) : list[i] = e})

\* the list an add_to_* call appends to, as the store holds it
AddedTo(call) ==
    CASE call[1] = "add_to_inscription_txs" -> database.content.inscription_txs
      [] call[1] = "add_to_deposit_txs" -> database.content.deposit_txs
      [] call[1] = "add_to_withdrawals_merkle_tree" ->
            database.content.withdrawals_merkle_tree.leaves
      [] call[1] = "add_to_withdrawals_payment_txids" ->
            IF call[2][1] < Len(database.content.withdrawals_payment_txids)
            THEN database.content.withdrawals_payment_txids[call[2][1] + 1]
            ELSE <<>>

AddedElement(call) == call[2][Len(call[2])]

StoredElements ==
    Len(database.content.inscription_txs) + Len(database.content.deposit_txs)
    + database.content.withdrawals_merkle_tree.index
    + SumSeq([i \in 1..Len(database.content.withdrawals_payment_txids) |->
                 Len(database.content.withdrawals_payment_txids[i])])

SetCalls ==
    {<<"set_connector_tree_hashes", <<t>>>> :
        t \in {<<>>, <<<<<<"h45">>>>>>, <<<<<<"h45", "h46">>>>, <<<<"h46">>>>>>}}
    \cup {<<"set_claim_proof_merkle_trees", <<l>>>> :
             l \in {<<>>, <<<<"h45">>>>, <<<<"h45">>, <<>>>>}}
    \cup {<<"set_start_block_height", <<h>>>> : h \in {0, 69}}
    \cup {<<"add_inscribed_preimages", <<period, l>>>> :
             period \in Periods, l \in {<<"h45">>, <<"h45", "h46">>}}
    \cup {<<"add_to_withdrawals_merkle_tree", <<"h45">>>>}

GetCalls ==
    {<<"get_connector_tree_hash", <<period, level, idx>>>> :
        period \in Periods, level \in 0..1, idx \in 0..1}
    \cup {<<"get_claim_proof_merkle_tree", <<period>>>> : period \in Periods}
    \cup {<<"get_withdrawals_merkle_tree_index", <<>>>>, <<"get_start_block_height", <<>>>>}
    \cup {<<"get_inscribed_preimages", <<period>>>> : period \in Periods}

\* what the callers have written so far, after one more call
Written(w, op, arg) ==
    CASE op = "set_connector_tree_hashes" -> [w EXCEPT !.connector_tree_hashes = Some(arg[1])]
      [] op = "set_claim_proof_merkle_trees" ->
            [w EXCEPT !.claim_proof_merkle_trees = Some(arg[1])]
      [] op = "set_start_block_height" -> [w EXCEPT !.start_block_height = Some(arg[1])]
      [] op = "add_inscribed_preimages" -> [w EXCEPT !.preimages[arg[1]] = Some(arg[2])]
      [] op = "add_to_withdrawals_merkle_tree" -> [w EXCEPT !.merkle_adds = @ + 1]

\* a set or add call run alone: lock, read, change, write, return
DatabaseSet(call) ==
    /\ database.lock = 0
    /\ call[1] = "add_to_withdrawals_merkle_tree"
          => database.content.withdrawals_merkle_tree.index < MaxMerkleAdds
    /\ database' = [database EXCEPT
          !.content = DbApply(call[1], database.content, call[2]),
          !.written = Written(@, call[1], call[2]),
          !.last = [op |-> call[1], arg |-> call[2], res |-> <<>>]]

\* a get call: read and answer
DatabaseGet(call) ==
    LET content == database.content
        arg == call[2]
        res == CASE call[1] = "get_connector_tree_hash" ->
                       get_connector_tree_hash(content, arg[1], arg[2], arg[3])
                 [] call[1] = "get_claim_proof_merkle_tree" ->
                       get_claim_proof_merkle_tree(content, arg[1])
                 [] call[1] = "get_withdrawals_merkle_tree_index" ->
                       get_withdrawals_merkle_tree_index(content)
                 [] call[1] = "get_start_block_height" -> get_start_block_height(content)
                 [] call[1] = "get_inscribed_preimages" ->
                       get_inscribed_preimages(content, arg[1])
    IN  database' = [database EXCEPT !.last = [op |-> call[1], arg |-> arg, res |-> <<res>>]]

NextDatabaseSeq ==
    \/ \E call \in SetCalls : DatabaseSet(call) /\ DatabaseOnly
    \/ \E call \in GetCalls : DatabaseGet(call) /\ DatabaseOnly

SpecDatabaseSeq == Init /\ [][NextDatabaseSeq]_vars

\* what a get answers when it returns the value last set for its entry, or the default
\* of an entry never written
ExpectedOfGet(w, op, arg) ==
    CASE op = "get_connector_tree_hash" ->
            LET t == w.connector_tree_hashes
            IN  IF /\ IsSome(t) /\ arg[1] < Len(Unwrap(t))
                   /\ arg[2] < Len(Unwrap(t)[arg[1] + 1])
                   /\ arg[3] < Len(Unwrap(t)[arg[1] + 1][arg[2] + 1])
                THEN Unwrap(t)[arg[1] + 1][arg[2] + 1][arg[3] + 1]
                ELSE ZeroHash
      [] op = "get_claim_proof_merkle_tree" ->
            LET t == w.claim_proof_merkle_trees
            IN  IF IsSome(t) /\ arg[1] < Len(Unwrap(t))
                THEN MerkleTreeOf(Unwrap(t)[arg[1] + 1])
                ELSE MerkleTreeNew
      [] op = "get_withdrawals_merkle_tree_index" -> w.merkle_adds
      [] op = "get_start_block_height" ->
            IF IsSome(w.start_block_height) THEN Unwrap(w.start_block_height) ELSE 0
      [] op = "get_inscribed_preimages" ->
            IF IsSome(w.preimages[arg[1]]) THEN Unwrap(w.preimages[arg[1]])
            ELSE <<ZeroHash>>

\* C35 (as claimed): a get answers the value last set for its entry, the default (the
\* all-zero hash, the empty merkle tree, 0, one all-zero preimage) for an entry never
\* written, and the withdrawals merkle tree index is the number of adds made.
C35_GetAfterSet ==
    database.last.res # <<>> =>
        database.last.res[1]
            = ExpectedOfGet(database.written, database.last.op, database.last.arg)

----------------------------------------------------------------------------
(* Database wrapper types (database/wrapper.rs): a value is encoded as text and decoded *)
(* from that text                                                                       *)

ByteStrings == [1..WrapperBytes -> {0, 1, 16, 171}]

HexDigits == <<"0", "1", "2", "3", "4", "5", "6", "7", "8", "9", "a", "b", "c", "d", "e", "f">>

IsHexDigit(ch) == \E n \in 1..16 : HexDigits[n] = ch

HexValue(ch) == (CHOOSE n \in 1..16 : HexDigits[n] = ch) - 1

\* hex::encode: two digits per byte, in the order of the bytes
hex_encode(bytes) ==
    [i \in 1..(2 * Len(bytes)) |->
        IF i % 2 = 1 THEN HexDigits[(bytes[(i + 1) \div 2] \div 16) + 1]
        ELSE HexDigits[(bytes[i \div 2] % 16) + 1]]

\* hex::decode of a text of len bytes
hex_decode(text, len) ==
    IF Len(text) = 2 * len /\ \A i \in 1..Len(text) : IsHexDigit(text[i])
    THEN Ok([b \in 1..len |-> 16 * HexValue(text[2 * b - 1]) + HexValue(text[2 * b])])
    ELSE Err("FromHexError")

Reverse(q) == [i \in 1..Len(q) |-> q[Len(q) + 1 - i]]

\* Txid::from_str: the bytes of the hex text, reversed
TxidFromStr(text) ==
    LET bytes == hex_decode(text, WrapperBytes)
    IN  IF bytes.ok THEN Ok(Reverse(bytes.val)) ELSE Err("HexToArrayError")

\* u32::to_string
RECURSIVE DecimalToString(_)
DecimalToString(n) ==
    IF n < 10 THEN <<HexDigits[n + 1]>>
    ELSE Append(DecimalToString(n \div 10), HexDigits[(n % 10) + 1])

\* u32::from_str of a text of decimal digits
RECURSIVE DecimalFromStr(_)
DecimalFromStr(text) ==
    IF Len(text) = 1 THEN HexValue(text[1])
    ELSE 10 * DecimalFromStr(SubSeq(text, 1, Len(text) - 1)) + HexValue(text[Len(text)])

\* Display of an OutPoint: "{txid}:{vout}", the txid as the hex of its bytes in reverse
\* order
OutPointToString(outpoint) ==
    hex_encode(Reverse(outpoint[1])) \o <<":">> \o DecimalToString(outpoint[2])

\* OutPoint::from_str
OutPointFromStr(text) ==
    IF ~\E i \in 1..Len(text) : text[i] = ":"
    THEN Err("ParseOutPointError")
    ELSE LET colon == CHOOSE i \in 1..Len(text) :
                          text[i] = ":" /\ \A h \in 1..(i - 1) : text[h] # ":"
             txid == TxidFromStr(SubSeq(text, 1, colon - 1))
             digits == SubSeq(text, colon + 1, Len(text))
         IN  IF /\ txid.ok /\ digits # <<>>
                /\ \A i \in 1..Len(digits) : HexValue(digits[i]) < 10 /\ IsHexDigit(digits[i])
                /\ (Len(digits) > 1 => digits[1] # "0")
             THEN Ok(<<txid.val, DecimalFromStr(digits)>>)
             ELSE Err("ParseOutPointError")

\* the wrapped values, each with the name of its wrapper type
WrapperValues ==
    ({"EVMAddressDB", "TxidDB", "SignatureDB"} \X ByteStrings)
    \cup ({"OutPointDB"} \X (ByteStrings \X {0, 1, 12}))

\* Encode::encode_by_ref of the wrapper types
EncodeByRef(kind, value) ==
    CASE kind = "OutPointDB" -> OutPointToString(value)
      [] kind = "EVMAddressDB" -> hex_encode(value)
      [] kind = "TxidDB" -> hex_encode(value)
      [] kind = "SignatureDB" -> hex_encode(value)

\* Decode::decode of the wrapper types
Decode(kind, text) ==
    CASE kind = "OutPointDB" -> OutPointFromStr(text)
      [] kind = "EVMAddressDB" ->
            LET bytes == hex_decode(text, WrapperBytes)
            IN  IF bytes.ok THEN bytes ELSE Panic
      [] kind = "TxidDB" ->
            LET txid == TxidFromStr(text)
            IN  IF txid.ok THEN txid ELSE Panic
      [] kind = "SignatureDB" ->
            LET bytes == hex_decode(text, WrapperBytes)
            IN  IF bytes.ok THEN bytes ELSE Panic

CodecOnly ==
    UNCHANGED <<deposit_infos, nonces, agg_nonces, kickoffs, nonce_ctr, uses, last,
                ctor, procs, okg_calls, burn_call, withdrawal_sigs, wlast, tree, tap,
                database>>

\* a value is bound to a query
CodecEncode(kind, value) ==
    /\ codec.pc = "idle"
    /\ codec' = [codec EXCEPT !.pc = "encoded", !.kind = kind, !.value = value,
                              !.text = EncodeByRef(kind, value)]

\* the stored text comes back in a row
CodecDecode ==
    /\ codec.pc = "encoded"
    /\ codec' = [codec EXCEPT !.pc = "decoded", !.decoded = Decode(codec.kind, codec.text)]

NextCodec ==
    \/ \E w \in WrapperValues : CodecEncode(w[1], w[2]) /\ CodecOnly
    \/ CodecDecode /\ CodecOnly

SpecCodec == Init /\ [][NextCodec]_vars

\* C40 (as claimed): decoding the text a wrapper type encodes gives the value back, for
\* TxidDB, OutPointDB, EVMAddressDB and SignatureDB.
C40_RoundTrip ==
    codec.pc = "decoded" => codec.decoded = Ok(codec.value)

----------------------------------------------------------------------------
(* Claims about the sequential verifier *)

\* C1 (as claimed): the secret nonce of a (deposit, slot) is never handed to
\* partial_sign with two different message digests.
C1_NoNonceReuse ==
    \A u1, u2 \in uses : u1.sec = u2.sec => u1.msg = u2.msg

\* C2: once nonces are stored for a deposit they are never replaced, and every
\* successful new_deposit for that deposit returns the public halves of the stored set,
\* so all successful calls return the same list.
C2_NonceIdempotence ==
    [][\A d \in Deposits :
          /\ IsSome(nonces[d]) => nonces'[d] = nonces[d]
          /\ (last'.op = "new_deposit" /\ last'.d = d /\ last'.res.ok)
                => /\ IsSome(nonces'[d])
                   /\ last'.res.val = [k \in 1..Len(Unwrap(nonces'[d])) |->
                                          Unwrap(nonces'[d])[k].pub]]_vars

\* C2 witness: a successful new_deposit made after the deposit's nonces were already
\* used by burn_txs_signed, i.e. a later call with other calls in between.
C2_Witness ==
    /\ last.op = "new_deposit" /\ last.res.ok
    /\ \E u \in uses : u.msg.tx.input[1].previous_output = DepositOutPoint(last.d)

InRange(k) == k.vout < Len(k.tx.output)

UnderValue(k) == InRange(k) /\ k.tx.output[k.vout + 1] < MIN_KICKOFF_SATS

HasUnderValue(ku) == \E i \in 1..Len(ku) : UnderValue(ku[i])

FirstUnderValue(ku) ==
    CHOOSE i \in 1..Len(ku) : UnderValue(ku[i]) /\ \A j \in 1..(i - 1) : ~UnderValue(ku[j])

KickoffStateKept == kickoffs' = kickoffs /\ agg_nonces' = agg_nonces

\* C6 (as claimed): a batch holding an under-threshold kickoff is answered with
\* InvalidKickoffUtxo and nothing of it is persisted.
C6_AlwaysInvalidKickoffUtxo ==
    [][(last'.op = "operator_kickoffs_generated" /\ HasUnderValue(last'.req.kickoff_utxos))
          => (last'.res = Err("InvalidKickoffUtxo") /\ KickoffStateKept)]_vars

\* C6 (amended): a batch holding an under-threshold kickoff always fails and persists
\* nothing; the failure is InvalidKickoffUtxo when the signature count differs from the
\* kickoff count or when every kickoff before the first under-threshold one names an
\* existing output and carries a valid operator signature.
C6_UnderValueRejectsBatch ==
    [][(last'.op = "operator_kickoffs_generated" /\ HasUnderValue(last'.req.kickoff_utxos))
          => LET req == last'.req
                 ku == req.kickoff_utxos
                 f == FirstUnderValue(ku)
             IN  /\ ~last'.res.ok
                 /\ KickoffStateKept
                 /\ (\/ Len(req.sigs) # Len(ku)
                     \/ \A j \in 1..(f - 1) :
                           /\ InRange(ku[j])
                           /\ verify_schnorr(req.sigs[j], KickoffSigHash(last'.d, ku[j]),
                                             SignerKey))
                       => last'.res = Err("InvalidKickoffUtxo")]_vars

\* C6 witness: a rejected batch whose first kickoff is valid and whose second is below
\* the threshold, on a deposit that already has a registered kickoff set.
C6_Witness ==
    /\ last.op = "operator_kickoffs_generated"
    /\ Len(last.req.kickoff_utxos) = 2
    /\ ~UnderValue(last.req.kickoff_utxos[1]) /\ UnderValue(last.req.kickoff_utxos[2])
    /\ Len(last.req.sigs) = 2
    /\ verify_schnorr(last.req.sigs[1], KickoffSigHash(last.d, last.req.kickoff_utxos[1]),
                      SignerKey)
    /\ last.res = Err("InvalidKickoffUtxo")
    /\ IsSome(kickoffs[last.d])

KickoffValue(k) == k.tx.output[k.vout + 1]

ValidKickoffSigs(d, req) ==
    /\ Len(req.sigs) = Len(req.kickoff_utxos)
    /\ \A i \in 1..Len(req.kickoff_utxos) :
          verify_schnorr(req.sigs[i], KickoffSigHash(d, req.kickoff_utxos[i]), SignerKey)

\* C21: every stored kickoff amount is at least 100_000 sat, and a batch of kickoffs
\* valued exactly 100_000 sat each with valid operator signatures is accepted and its
\* outpoints and amounts are stored.
C21_ThresholdValueAccepted ==
    [][/\ \A d \in Deposits :
             IsSome(kickoffs'[d]) =>
                 \A i \in 1..Len(Unwrap(kickoffs'[d])) :
                     Unwrap(kickoffs'[d])[i][2] >= MIN_KICKOFF_SATS
       /\ (/\ last'.op = "operator_kickoffs_generated"
           /\ last'.req.kickoff_utxos # <<>>
           /\ \A i \in 1..Len(last'.req.kickoff_utxos) :
                 /\ InRange(last'.req.kickoff_utxos[i])
                 /\ KickoffValue(last'.req.kickoff_utxos[i]) = MIN_KICKOFF_SATS
           /\ ValidKickoffSigs(last'.d, last'.req))
             => /\ last'.res.ok
                /\ kickoffs'[last'.d] =
                      Some(kickoff_outpoints_and_amounts(last'.req.kickoff_utxos))]_vars

\* C21 witness: an accepted batch of one kickoff valued exactly 100_000 sat, stored
C21_Witness ==
    /\ last.op = "operator_kickoffs_generated" /\ last.res.ok
    /\ Len(last.req.kickoff_utxos) = 1
    /\ KickoffValue(last.req.kickoff_utxos[1]) = MIN_KICKOFF_SATS
    /\ IsSome(kickoffs[last.d])
    /\ Unwrap(kickoffs[last.d])[1][2] = MIN_KICKOFF_SATS

\* C22 (as claimed): operator_kickoffs_generated accepts a batch only if the value of
\* each of its kickoffs strictly exceeds 100_000 sat.
C22_AcceptedOnlyAboveThreshold ==
    [][(last'.op = "operator_kickoffs_generated" /\ last'.res.ok)
          => \A i \in 1..Len(last'.req.kickoff_utxos) :
                KickoffValue(last'.req.kickoff_utxos[i]) > MIN_KICKOFF_SATS]_vars

\* C22 (amended): operator_kickoffs_generated accepts a batch only if the value of each
\* of its kickoffs is at least 100_000 sat, and a kickoff valued below 100_000 sat is
\* answered with InvalidKickoffUtxo before its operator signature is looked at.
C22_AcceptedOnlyFromThreshold ==
    [][(last'.op = "operator_kickoffs_generated")
          => LET ku == last'.req.kickoff_utxos
             IN  /\ last'.res.ok =>
                       \A i \in 1..Len(ku) : KickoffValue(ku[i]) >= MIN_KICKOFF_SATS
                 /\ (/\ Len(last'.req.sigs) = Len(ku) /\ ku # <<>>
                     /\ UnderValue(ku[1]))
                       => last'.res = Err("InvalidKickoffUtxo")]_vars

\* C22 witness: a kickoff below the threshold that carries a signature by a foreign key
\* is answered with InvalidKickoffUtxo
C22_Witness ==
    /\ last.op = "operator_kickoffs_generated"
    /\ Len(last.req.kickoff_utxos) = 1 /\ Len(last.req.sigs) = 1
    /\ UnderValue(last.req.kickoff_utxos[1])
    /\ last.req.sigs[1].key = ForeignKey
    /\ last.res = Err("InvalidKickoffUtxo")

\* states of a (deposit, 0-based signature slot)
NonceGenerated(d, k) == IsSome(nonces[d]) /\ k < Len(Unwrap(nonces[d]))

AggNonceReceived(d, k) == IsSome(agg_nonces[d]) /\ k < Len(Unwrap(agg_nonces[d]))

PartiallySigned(d, k) ==
    /\ NonceGenerated(d, k)
    /\ \E u \in uses : u.sec = Unwrap(nonces[d])[k + 1].sec

SlotState(d, k) ==
    IF PartiallySigned(d, k) THEN 3
    ELSE IF AggNonceReceived(d, k) THEN 2
    ELSE IF NonceGenerated(d, k) THEN 1
    ELSE 0

\* C23: burn_txs_signed on a deposit without a registered kickoff set fails with
\* KickoffOutpointsNotFound; on a deposit with registered kickoffs of which one needs a
\* slot (kickoff i uses slot i + 2, counted from 0) that lacks its nonce pair or its
\* aggregated nonce it fails with NoncesNotFound; neither call makes a partial signature.
C23_BurnMissingState ==
    [][(last'.op = "burn_txs_signed")
          => LET d == last'.d
             IN  /\ ~IsSome(kickoffs[d]) =>
                       (last'.res = Err("KickoffOutpointsNotFound") /\ uses' = uses)
                 /\ (/\ IsSome(kickoffs[d])
                     /\ \E i \in 0..(Len(Unwrap(kickoffs[d])) - 1) :
                           ~NonceGenerated(d, i + 2) \/ ~AggNonceReceived(d, i + 2))
                       => (last'.res = Err("NoncesNotFound") /\ uses' = uses)]_vars

\* C23 witness: burn_txs_signed failed with NoncesNotFound on a deposit that has its
\* nonce pairs and a registered kickoff set but no aggregated nonce for the slot
C23_Witness ==
    /\ last.op = "burn_txs_signed" /\ last.res = Err("NoncesNotFound")
    /\ IsSome(kickoffs[last.d]) /\ Unwrap(kickoffs[last.d]) # <<>>
    /\ NonceGenerated(last.d, 2) /\ ~AggNonceReceived(last.d, 2)

\* C24 (as claimed): operator_take_txs_signed on a deposit without stored metadata
\* fails with DepositInfoNotFound.
C24_NoMetadataDepositInfoNotFound ==
    [][(last'.op = "operator_take_txs_signed" /\ ~IsSome(deposit_infos[last'.d]))
          => last'.res = Err("DepositInfoNotFound")]_vars

\* C24 (amended): operator_take_txs_signed on a deposit without stored metadata returns
\* no signatures: it fails with KickoffOutpointsNotFound when the deposit has no
\* registered kickoff set either, and with DepositInfoNotFound when it has one.
C24_NoMetadataFails ==
    [][(last'.op = "operator_take_txs_signed" /\ ~IsSome(deposit_infos[last'.d]))
          => last'.res = IF IsSome(kickoffs[last'.d]) THEN Err("DepositInfoNotFound")
                         ELSE Err("KickoffOutpointsNotFound")]_vars

\* C24 witness: DepositInfoNotFound for a deposit with registered kickoffs and no
\* metadata
C24_Witness ==
    /\ last.op = "operator_take_txs_signed" /\ last.res = Err("DepositInfoNotFound")
    /\ IsSome(kickoffs[last.d]) /\ ~IsSome(deposit_infos[last.d])

\* C32: a successful burn_txs_signed returns one partial signature per registered
\* kickoff, in registration order: the signature of kickoff i (0-based) is over that
\* kickoff's operator-take sighash, with the secret nonce and the aggregated nonce of
\* slot i + 2; no slot is 0 or 1 and no two signatures of the call share a slot.
C32_SlotPerKickoff ==
    (last.op = "burn_txs_signed" /\ last.res.ok) =>
        LET d == last.d
            ks == Unwrap(kickoffs[d])
            sg == last.res.val
        IN  /\ Len(sg) = Len(ks)
            /\ \A i \in 0..(Len(ks) - 1) :
                  /\ sg[i + 1].msg = OperatorTakeSighash(d, ks[i + 1])
                  /\ sg[i + 1].sec = Unwrap(nonces[d])[i + 3].sec
                  /\ sg[i + 1].sec.slot = i + 2
                  /\ sg[i + 1].agg = Unwrap(agg_nonces[d])[i + 3]
                  /\ sg[i + 1].key = SignerKey
            /\ \A a, b \in 1..Len(sg) : sg[a].sec.slot = sg[b].sec.slot => a = b

\* C32 witness: two registered kickoffs signed in one call, with slots 2 and 3
C32_Witness ==
    /\ last.op = "burn_txs_signed" /\ last.res.ok
    /\ Len(Unwrap(kickoffs[last.d])) = 2
    /\ Len(last.res.val) = 2
    /\ last.res.val[1].sec.slot = 2 /\ last.res.val[2].sec.slot = 3

\* C33: burn_txs_signed changes no persisted state, and a burn_txs_signed that directly
\* follows a burn_txs_signed for the same deposit returns what that one returned.
C33_BurnRepeatable ==
    [][last'.op = "burn_txs_signed" =>
          /\ UNCHANGED <<deposit_infos, nonces, agg_nonces, kickoffs, nonce_ctr>>
          /\ last'.repeat => last'.res = last.res]_vars

\* C33 witness: a repeated burn_txs_signed that returned two partial signatures
C33_Witness ==
    /\ last.op = "burn_txs_signed" /\ last.repeat
    /\ last.res.ok /\ Len(last.res.val) = 2

\* C36 (as claimed): when operator_kickoffs_generated accepts a kickoff set for a
\* deposit whose nonces new_deposit has stored, every registered kickoff index i has a
\* nonce set with its aggregated nonce at slot i + 2, and a burn_txs_signed made for a
\* deposit with metadata, nonces and kickoffs does not fail with NoncesNotFound.
C36_AcceptedKickoffsSignable ==
    /\ (/\ last.op = "operator_kickoffs_generated" /\ last.res.ok
        /\ IsSome(nonces[last.d]))
          => \A i \in 0..(Len(Unwrap(kickoffs[last.d])) - 1) :
                IsSome(get_nonces(last.d, i + 2))
    /\ (/\ last.op = "burn_txs_signed"
        /\ IsSome(nonces[last.d]) /\ IsSome(kickoffs[last.d]))
          => last.res # Err("NoncesNotFound")

\* C37 (as claimed): a deposit with stored kickoff outpoints or aggregated nonces also
\* has stored metadata and nonces.
C37_KickoffsOnlyForAcceptedDeposit ==
    \A d \in Deposits :
        (IsSome(kickoffs[d]) \/ IsSome(agg_nonces[d]))
            => (IsSome(deposit_infos[d]) /\ IsSome(nonces[d]))

\* values of a list of transaction outputs
Values(outs) == [o \in 1..Len(outs) |-> outs[o].value]

\* C38 (as claimed): for every operator-take transaction signed by burn_txs_signed no
\* value is negative, the output values (the 330-sat anyone-can-spend output included)
\* sum to no more than the prevout values committed to in the sighash, and the prevout
\* given for the kickoff input has the value of the output that input spends.
C38_OperatorTakeBalanced ==
    (last.op = "burn_txs_signed" /\ last.res.ok) =>
        \A s \in 1..Len(last.res.val) :
            LET tx == last.res.val[s].msg.tx
                prevouts == last.res.val[s].msg.prevouts
                spent == tx.input[2].previous_output
            IN  /\ \A o \in 1..Len(tx.output) : tx.output[o].value >= 0
                /\ \A o \in 1..Len(prevouts) : prevouts[o].value >= 0
                /\ SumSeq(Values(tx.output)) <= SumSeq(Values(prevouts))
                /\ prevouts[2].value = spent.txid.txid_of.output[spent.vout + 1].value

\* C39 (as claimed): operator_kickoffs_generated never aborts; a kickoff whose vout is
\* not an output of its funding transaction is answered with an error and stores nothing.
C39_MalformedKickoffIsAnError ==
    last.op = "operator_kickoffs_generated" =>
        /\ last.res # Panic
        /\ (\E i \in 1..Len(last.req.kickoff_utxos) : ~InRange(last.req.kickoff_utxos[i]))
              => (~last.res.ok /\ last.res.err # "")

\* C14 (as claimed): a slot holds an aggregated nonce only if its nonce pair was
\* generated, a partial signature is produced only for a slot that has both, and no
\* step takes a slot back to an earlier state.
C14_SlotStateMachine ==
    [][\A d \in Deposits, k \in 0..(NUM_REQUIRED_SIGS - 1) :
          /\ AggNonceReceived(d, k)' => NonceGenerated(d, k)'
          /\ (PartiallySigned(d, k)' /\ ~PartiallySigned(d, k))
                 => (NonceGenerated(d, k) /\ AggNonceReceived(d, k))
          /\ SlotState(d, k)' >= SlotState(d, k)]_vars

ValidationErrors ==
    {"InvalidDepositUtxo", "InvalidKickoffUtxo", "SignatureVerificationFailed",
     "KickoffOutpointsNotFound", "NoncesNotFound", "DepositInfoNotFound"}

\* C15: a call that returns a validation error leaves the stored deposit metadata,
\* nonces, aggregated nonces and kickoffs as they were, and draws no nonces.
C15_ErrorsKeepState ==
    [][(last'.res.err \in ValidationErrors)
          => UNCHANGED <<deposit_infos, nonces, agg_nonces, kickoffs, nonce_ctr>>]_vars

C15_Witness ==
    /\ last.op = "operator_kickoffs_generated"
    /\ last.res = Err("SignatureVerificationFailed")
    /\ IsSome(kickoffs[last.d])
    /\ Unwrap(kickoffs[last.d]) # kickoff_outpoints_and_amounts(last.req.kickoff_utxos)

\* C20: a call of operator_kickoffs_generated whose signature count differs from its
\* kickoff count returns InvalidKickoffUtxo, whatever else is wrong with the batch, and
\* stores nothing.
C20_CountMismatchRejected ==
    [][(/\ last'.op = "operator_kickoffs_generated"
        /\ Len(last'.req.sigs) # Len(last'.req.kickoff_utxos))
          => /\ last'.res = Err("InvalidKickoffUtxo")
             /\ UNCHANGED <<deposit_infos, nonces, agg_nonces, kickoffs, nonce_ctr>>]_vars

C20_Witness ==
    /\ last.op = "operator_kickoffs_generated"
    /\ Len(last.req.sigs) # Len(last.req.kickoff_utxos)
    /\ last.req.kickoff_utxos # <<>>
    /\ ~InRange(last.req.kickoff_utxos[1])
    /\ last.res = Err("InvalidKickoffUtxo")

\* C7 (as claimed): operator_take_txs_signed returns an error whenever a supplied
\* operator-take signature fails verification against the sighash rebuilt for the
\* corresponding registered kickoff.
C7_RejectsBadTakeSig ==
    (/\ last.op = "operator_take_txs_signed"
     /\ IsSome(kickoffs[last.d])
     /\ \E i \in 1..Len(Unwrap(kickoffs[last.d])) :
           ~OperatorTakeSigVerifies(last.d, Unwrap(kickoffs[last.d]), last.sigs, i))
        => ~last.res.ok

====
